---- MODULE Spec2Model ----
(***************************************************************************)
(* Shopping-list backend (Go handlers over a PostgreSQL store): items,     *)
(* the item_history table that records how often a name is added to a      *)
(* list, and the recommendation query over it.  Every SQL statement is one *)
(* atomic step of the store; a handler that issues several statements, and *)
(* the TrackItemAddition goroutine, are several steps.                     *)
(*                                                                         *)
(* Time is counted in whole days (NOW() and last_added_at are day numbers),*)
(* avg_days_between and urgency are exact rationals <<num, den>> in lowest *)
(* terms with den > 0.                                                     *)
(*                                                                         *)
(* rateLimitMiddleware stands in front of the handlers; under SpecRate the *)
(* clock counts its windows of a minute.  The list page of the frontend is *)
(* the client of ReorderItems and GetItems under SpecPage.                 *)
(***************************************************************************)
EXTENDS Integers, Sequences, FiniteSets, Bags, TLC

VARIABLES
    lists,          \* rows of table lists, by id
    items,          \* rows of table items (a set of Item records)
    nextId,         \* the next item id the store generates
    historyTable,   \* whether the item_history migration was run
    hist,           \* rows of table item_history, in storage order
    tasks,          \* bag of running TrackItemAddition goroutines
    now,            \* the store's clock NOW(), in days
    ev,             \* outcome of the last step: an HTTP response or a goroutine step
    added,          \* history variable: CreateItem requests stored per (list, name)
    sinceReset,     \* history variable: the same, restarted by a re-add of a dismissed name
    dismissedFor,   \* history variable: (list, name) dismissed and not added as an item since
    calls,          \* handler calls between two of their store statements
    req,            \* the request the last step of a handler belongs to
    rateLimits,     \* the map of rateLimitMiddleware: client key -> entry
    rateLimitMu,    \* the mutex of the map: 0, or the client whose request holds it
    forwarded,      \* history variable: requests passed on per key since its window opened
    arrived,        \* history variable: the number of requests received
    page            \* the list page of the frontend: its items array and its pending call

vars == <<lists, items, nextId, historyTable, hist, tasks, now, ev,
          added, sinceReset, dismissedFor, calls, req,
          rateLimits, rateLimitMu, forwarded, arrived, page>>

store == <<lists, items, nextId, historyTable, hist>>

ghost == <<added, sinceReset, dismissedFor>>

requests == <<calls, req>>

limiter == <<rateLimits, rateLimitMu, forwarded, arrived>>

-----------------------------------------------------------------------------
(* Bounds of the model *)

MaxItems == 2

MaxTime == 2

MaxRows == 11

\* clients with a request in flight at the same time
MaxClients == 2

(* Program constants *)

maxListNameLength == 15

maxItemNameLength == 100

maxHexColorLength == 6

DefaultAvgDays == 7

RecLimit == 10

ListIds == {"L1", "L2"}

\* "x101" stands for a name of 101 characters, "" is the empty name.
TooLong == "x101"

\* a request field that is not present (a nil pointer after decoding) is <<>>,
\* a present one a sequence of its value
Absent == <<>>

Some(v) == <<v>>

ItemNames == {"milk", "Milk"}

InputNames == ItemNames \cup {"", TooLong}

\* "u60x2" stands for an item name of 60 characters of two bytes each
MultiByte == "u60x2"

\* list names: "x16" has 16 characters, "u8x2" 8 characters of two bytes each
LongListName == "x16"

MultiByteListName == "u8x2"

\* colours: "x7" has 7 characters, "" is a request without a colour
DefaultHexColor == "42b883"

LongHexColor == "x7"

\* len(s) of Go: the number of bytes of s
NameLen(n) ==
    CASE n = "" -> 0
      [] n = TooLong -> 101
      [] n = MultiByte -> 120
      [] n = LongListName -> 16
      [] n = MultiByteListName -> 16
      [] n = "Shopping" -> 8
      [] n = DefaultHexColor -> 6
      [] n = "ff0000" -> 6
      [] n = LongHexColor -> 7
      [] OTHER -> 4

\* the number of characters of s, which VARCHAR(n) counts
Chars(n) ==
    CASE n = MultiByte -> 60
      [] n = MultiByteListName -> 8
      [] OTHER -> NameLen(n)

Clients == 1..MaxClients

Keys == ListIds \X (ItemNames \cup {""})

-----------------------------------------------------------------------------
(* Exact rationals for PostgreSQL FLOAT arithmetic *)

RECURSIVE GCD(_, _)
GCD(a, b) == IF b = 0 THEN a ELSE GCD(b, a % b)

Abs(x) == IF x < 0 THEN -x ELSE x

Rat(n, d) ==
    LET g == GCD(Abs(n), Abs(d))
        s == IF d < 0 THEN -1 ELSE 1
    IN  <<(s * n) \div g, (s * d) \div g>>

RatAdd(a, b) == Rat(a[1] * b[2] + b[1] * a[2], a[2] * b[2])

RatMulInt(a, k) == Rat(a[1] * k, a[2])

RatDivInt(a, k) == Rat(a[1], a[2] * k)

RatGE(a, b) == a[1] * b[2] >= b[1] * a[2]

RatGT(a, b) == a[1] * b[2] > b[1] * a[2]

Half == <<1, 2>>

-----------------------------------------------------------------------------
(* Table item_history *)

HasRow(h, l, n) == \E i \in 1..Len(h) : h[i].list_id = l /\ h[i].item_name = n

RowsOf(h, l, n) == {i \in 1..Len(h) : h[i].list_id = l /\ h[i].item_name = n}

RowOf(h, l, n) == h[CHOOSE i \in 1..Len(h) : h[i].list_id = l /\ h[i].item_name = n]

\* EXTRACT(EPOCH FROM (NOW() - last_added_at)) / 86400
DaysSince(r, t) == t - r.last_added_at

\* faulty variant: the re-add of a dismissed name restarts added_count
TrackedRowRestart(r, t) ==
    [r EXCEPT !.added_count = IF r.dismissed THEN 1 ELSE r.added_count + 1,
              !.avg_days_between =
                  IF r.added_count > 0
                  THEN RatDivInt(RatAdd(RatMulInt(r.avg_days_between, r.added_count),
                                        <<DaysSince(r, t), 1>>),
                                 r.added_count + 1)
                  ELSE <<DefaultAvgDays, 1>>,
              !.last_added_at = t,
              !.dismissed = FALSE]

\* faulty variant: the old average is not weighted with the old count
TrackedRowUnweighted(r, t) ==
    [r EXCEPT !.added_count = r.added_count + 1,
              !.avg_days_between =
                  IF r.added_count > 0
                  THEN RatDivInt(RatAdd(r.avg_days_between, <<DaysSince(r, t), 1>>),
                                 r.added_count + 1)
                  ELSE <<DefaultAvgDays, 1>>,
              !.last_added_at = t,
              !.dismissed = FALSE]

\* the SET clause of the UPDATE in TrackItemAddition, on the row's old values
TrackedRow(r, t) ==
    [r EXCEPT !.added_count = r.added_count + 1,
              !.avg_days_between =
                  IF r.added_count > 0
                  THEN RatDivInt(RatAdd(RatMulInt(r.avg_days_between, r.added_count),
                                        <<DaysSince(r, t), 1>>),
                                 r.added_count + 1)
                  ELSE <<DefaultAvgDays, 1>>,
              !.last_added_at = t,
              !.dismissed = FALSE]

\* faulty variant: the statement matches the name in every list
UpdateHistoryAnyList(h, l, n, t) ==
    [i \in 1..Len(h) |->
        IF h[i].item_name = n THEN TrackedRow(h[i], t) ELSE h[i]]

\* UPDATE item_history SET ... WHERE list_id = $1 AND item_name = $2
UpdateHistory(h, l, n, t) ==
    [i \in 1..Len(h) |->
        IF h[i].list_id = l /\ h[i].item_name = n THEN TrackedRow(h[i], t) ELSE h[i]]

\* faulty variant: the new row counts no addition
NewRowUncounted(l, n, t) ==
    [list_id |-> l, item_name |-> n, added_count |-> 0, last_added_at |-> t,
     avg_days_between |-> <<DefaultAvgDays, 1>>, dismissed |-> FALSE]

\* VALUES ($1, $2, 1, NOW(), 7, false)
NewRow(l, n, t) ==
    [list_id |-> l, item_name |-> n, added_count |-> 1, last_added_at |-> t,
     avg_days_between |-> <<DefaultAvgDays, 1>>, dismissed |-> FALSE]

\* faulty variant: the insert does not meet the unique key
InsertHistoryNoConflict(h, ls, l, n, t) ==
    IF l \notin ls THEN h ELSE Append(h, NewRow(l, n, t))

\* INSERT ... ON CONFLICT DO NOTHING against UNIQUE(list_id, item_name) and
\* the foreign key list_id REFERENCES lists(id)
InsertHistory(h, ls, l, n, t) ==
    IF l \notin ls \/ HasRow(h, l, n) THEN h ELSE Append(h, NewRow(l, n, t))

\* faulty variant: the dismissal matches the list only
DismissHistoryAllNames(h, l, n) ==
    [i \in 1..Len(h) |->
        IF h[i].list_id = l THEN [h[i] EXCEPT !.dismissed = TRUE] ELSE h[i]]

\* UPDATE item_history SET dismissed = true WHERE list_id = $1 AND item_name = $2
DismissHistory(h, l, n) ==
    [i \in 1..Len(h) |->
        IF h[i].list_id = l /\ h[i].item_name = n
        THEN [h[i] EXCEPT !.dismissed = TRUE] ELSE h[i]]

-----------------------------------------------------------------------------
(* Table lists *)

\* emoji is NULL (Absent) or a text
ListRow(id, name, emoji, hex, t) ==
    [id |-> id, name |-> name, emoji |-> emoji, hex_color |-> hex, created_at |-> t]

\* the lists of a store that CreateList filled before the first step
StoredLists == [l \in ListIds |-> ListRow(l, "Shopping", Some("cart"), DefaultHexColor, 0)]

-----------------------------------------------------------------------------
(* Table items *)

ItemsOf(its, l) == {it \in its : it.list_id = l}

RECURSIVE SetMax(_)
SetMax(S) ==
    IF S = {} THEN 0
    ELSE LET x == CHOOSE y \in S : \A z \in S : z <= y IN x

\* SELECT COALESCE(MAX(sort_order), 0) FROM items WHERE list_id = $1
MaxSortOrder(its, l) == SetMax({it.sort_order : it \in ItemsOf(its, l)})

\* INSERT INTO items (list_id, name, is_separator, sort_order) ... RETURNING.
\* created_at is the store's timestamp of the insert, far finer than a day:
\* it orders the items as they were inserted, and is the insert's number here.
NewItem(id, l, n, sep, order) ==
    [id |-> id, list_id |-> l, name |-> n, checked |-> FALSE,
     sort_order |-> order, is_separator |-> sep, created_at |-> id]

-----------------------------------------------------------------------------
(* Outcomes *)

NoBody == <<>>

\* an HTTP response; err: the handler's store call returned an error
Response(op, l, n, status, body) ==
    [op |-> op, list |-> l, name |-> n, status |-> status, body |-> body,
     rows |-> 0, err |-> FALSE]

Failure(op, l, n, status) ==
    [op |-> op, list |-> l, name |-> n, status |-> status, body |-> NoBody,
     rows |-> 0, err |-> TRUE]

\* a step of a goroutine: no HTTP response, rows = RowsAffected()
Background(op, l, n, rows, err) ==
    [op |-> op, list |-> l, name |-> n, status |-> 0, body |-> NoBody,
     rows |-> rows, err |-> err]

Task(l, n, pc) == [list |-> l, name |-> n, pc |-> pc]

Pending(l, n) == CopiesIn(Task(l, n, "update"), tasks) + CopiesIn(Task(l, n, "insert"), tasks)

NoTasks == tasks = EmptyBag

\* a call of a handler that issues several store statements: in is the decoded
\* request body, k the number of statements done, status the status sent (0
\* while the call runs).  row is what an UpdateList call has fetched; for a
\* ReorderItems call, which reads nothing, it is a history value: the items
\* of the store when the call began.
Call(op, l, in, row, k) ==
    [op |-> op, list |-> l, in |-> in, row |-> row, k |-> k, status |-> 0]

Idle == Call("idle", "", <<>>, <<>>, 0)

\* a call that has sent its response; it is what the client knows of it until
\* the client sends its next request
AnsweredCall(call, status) == [call EXCEPT !.status = status]

Running(c, op) == calls[c].op = op /\ calls[c].status = 0

\* client c has no call running
Free(c) == calls[c].op = "idle" \/ calls[c].status # 0

\* a request of client c (0: any client): the path values and the decoded body
Request(c, op, l, id, in) == [client |-> c, op |-> op, list |-> l, id |-> id, in |-> in]

NoRequest == Request(0, "", "", 0, <<>>)

\* the keys of the clients of rateLimitMiddleware
ClientKeys == {"10.0.0.1", "10.0.0.2:5000"}

\* rateLimits[ip] of a key that is not in the map
NoEntry == <<>>

\* the middleware has received no request
NoTraffic ==
    /\ rateLimits = [key \in ClientKeys |-> NoEntry]
    /\ rateLimitMu = 0
    /\ forwarded = [key \in ClientKeys |-> [limited |-> 0, health |-> 0]]
    /\ arrived = 0

\* no list page is open
NoPage == [items |-> <<>>, pc |-> "closed", sent |-> <<>>, error |-> FALSE]

-----------------------------------------------------------------------------
Init ==
    /\ lists = StoredLists
    /\ items = {}
    /\ nextId = 1
    /\ historyTable \in BOOLEAN
    /\ hist = <<>>
    /\ tasks = EmptyBag
    /\ now = 0
    /\ ev = Response("init", "", "", 0, NoBody)
    /\ added = [k \in Keys |-> 0]
    /\ sinceReset = [k \in Keys |-> 0]
    /\ dismissedFor = {}
    /\ calls = [c \in Clients |-> Idle]
    /\ req = NoRequest
    /\ NoTraffic
    /\ page = NoPage

\* the clock advances by a day
Tick ==
    /\ now < MaxTime
    /\ now' = now + 1
    /\ ev' = Response("tick", "", "", 0, NoBody)
    /\ UNCHANGED <<store, tasks>>

\* faulty variant: the tracking is started before the name is validated
CreateItemTrackFirst(l, n, sep) ==
    IF (n = "" /\ ~sep) \/ NameLen(n) > maxItemNameLength
    THEN /\ ev' = Response("CreateItem", l, n, 400, NoBody)
         /\ tasks' = tasks (+) SetToBag({Task(l, n, "update")})
         /\ UNCHANGED <<store, now>>
    ELSE IF l \notin DOMAIN lists
    THEN /\ ev' = Failure("CreateItem", l, n, 500)
         /\ UNCHANGED <<store, tasks, now>>
    ELSE /\ nextId <= MaxItems
         /\ LET item == NewItem(nextId, l, n, sep, MaxSortOrder(items, l) + 1)
            IN  /\ items' = items \cup {item}
                /\ ev' = Response("CreateItem", l, n, 201, <<item>>)
         /\ nextId' = nextId + 1
         /\ tasks' = tasks (+) SetToBag({Task(l, n, "update")})
         /\ UNCHANGED <<lists, historyTable, hist, now>>

\* POST /api/lists/{listId}/items
CreateItem(l, n, sep) ==
    IF (n = "" /\ ~sep) \/ NameLen(n) > maxItemNameLength
    THEN /\ ev' = Response("CreateItem", l, n, 400, NoBody)
         /\ UNCHANGED <<store, tasks, now>>
    ELSE IF l \notin DOMAIN lists
    THEN /\ ev' = Failure("CreateItem", l, n, 500)
         /\ UNCHANGED <<store, tasks, now>>
    ELSE /\ nextId <= MaxItems
         /\ LET item == NewItem(nextId, l, n, sep, MaxSortOrder(items, l) + 1)
            IN  /\ items' = items \cup {item}
                /\ ev' = Response("CreateItem", l, n, 201, <<item>>)
         /\ nextId' = nextId + 1
         /\ tasks' = tasks (+) SetToBag({Task(l, n, "update")})
         /\ UNCHANGED <<lists, historyTable, hist, now>>

\* CreateItem up to and including SELECT COALESCE(MAX(sort_order), 0): the
\* call of client c keeps the maximum it read in row
CreateItemMax(c, l, n, sep) ==
    /\ Free(c)
    /\ IF (n = "" /\ ~sep) \/ NameLen(n) > maxItemNameLength
       THEN /\ ev' = Response("CreateItem", l, n, 400, NoBody)
            /\ UNCHANGED calls
       ELSE /\ calls' = [calls EXCEPT ![c] =
                            Call("CreateItem", l, [name |-> n, is_separator |-> sep],
                                 <<MaxSortOrder(items, l)>>, 1)]
            /\ ev' = Background("CreateItemMax", l, n, 1, FALSE)
    /\ UNCHANGED <<store, tasks, now>>

\* faulty variant: the tracking is started whether or not the insert succeeded
CreateItemInsertTrackAlways(c) ==
    /\ Running(c, "CreateItem")
    /\ LET l == calls[c].list
           n == calls[c].in.name
       IN  /\ IF l \notin DOMAIN lists
              THEN /\ ev' = Failure("CreateItem", l, n, 500)
                   /\ UNCHANGED store
              ELSE /\ nextId <= MaxItems
                   /\ LET item == NewItem(nextId, l, n, calls[c].in.is_separator,
                                          calls[c].row[1] + 1)
                      IN  /\ items' = items \cup {item}
                          /\ ev' = Response("CreateItem", l, n, 201, <<item>>)
                   /\ nextId' = nextId + 1
                   /\ UNCHANGED <<lists, historyTable, hist>>
           /\ tasks' = tasks (+) SetToBag({Task(l, n, "update")})
    /\ calls' = [calls EXCEPT ![c] = AnsweredCall(@, ev'.status)]
    /\ UNCHANGED now

\* CreateItem from the INSERT on: the row gets sort_order maxOrder + 1; the
\* insert fails on the foreign key when the list is gone
CreateItemInsert(c) ==
    /\ Running(c, "CreateItem")
    /\ LET l == calls[c].list
           n == calls[c].in.name
       IN  IF l \notin DOMAIN lists
           THEN /\ ev' = Failure("CreateItem", l, n, 500)
                /\ UNCHANGED <<store, tasks>>
           ELSE /\ nextId <= MaxItems
                /\ LET item == NewItem(nextId, l, n, calls[c].in.is_separator,
                                       calls[c].row[1] + 1)
                   IN  /\ items' = items \cup {item}
                       /\ ev' = Response("CreateItem", l, n, 201, <<item>>)
                /\ nextId' = nextId + 1
                /\ tasks' = tasks (+) SetToBag({Task(l, n, "update")})
                /\ UNCHANGED <<lists, historyTable, hist>>
    /\ calls' = [calls EXCEPT ![c] = AnsweredCall(@, ev'.status)]
    /\ UNCHANGED now

\* TrackItemAddition: the UPDATE statement
TrackUpdate(l, n) ==
    /\ BagIn(Task(l, n, "update"), tasks)
    /\ LET rows == IF historyTable THEN Cardinality(RowsOf(hist, l, n)) ELSE 0
       IN  /\ hist' = IF historyTable THEN UpdateHistory(hist, l, n, now) ELSE hist
           /\ tasks' = IF rows = 0
                       THEN (tasks (-) SetToBag({Task(l, n, "update")}))
                                (+) SetToBag({Task(l, n, "insert")})
                       ELSE tasks (-) SetToBag({Task(l, n, "update")})
           /\ ev' = Background("TrackUpdate", l, n, rows, ~historyTable)
    /\ UNCHANGED <<lists, items, nextId, historyTable, now>>

\* TrackItemAddition: the INSERT statement, after err != nil || RowsAffected() == 0
TrackInsert(l, n) ==
    /\ BagIn(Task(l, n, "insert"), tasks)
    /\ hist' = IF historyTable THEN InsertHistory(hist, DOMAIN lists, l, n, now) ELSE hist
    /\ tasks' = tasks (-) SetToBag({Task(l, n, "insert")})
    /\ ev' = Background("TrackInsert", l, n, Len(hist') - Len(hist),
                        ~historyTable \/ l \notin DOMAIN lists)
    /\ UNCHANGED <<lists, items, nextId, historyTable, now>>

\* faulty variant: the handler looks the item up by id and answers 403 when it
\* belongs to another list
UpdateItemForbidden(l, id, in) ==
    IF in.name # Absent /\ NameLen(in.name[1]) > maxItemNameLength
    THEN /\ ev' = Response("UpdateItem", l, "", 400, NoBody)
         /\ UNCHANGED <<store, tasks, now>>
    ELSE IF in.checked = Absent /\ in.name = Absent /\ in.sort_order = Absent
    THEN /\ ev' = Response("UpdateItem", l, "", 400, NoBody)
         /\ UNCHANGED <<store, tasks, now>>
    ELSE LET hit == {it \in items : it.id = id /\ it.list_id = l}
             set(it) == [it EXCEPT
                 !.checked = IF in.checked = Absent THEN @ ELSE in.checked[1],
                 !.name = IF in.name = Absent THEN @ ELSE in.name[1],
                 !.sort_order = IF in.sort_order = Absent THEN @ ELSE in.sort_order[1]]
         IN  /\ items' = (items \ hit) \cup {set(it) : it \in hit}
             /\ ev' = IF hit = {}
                      THEN Response("UpdateItem", l, "",
                                    IF \E it \in items : it.id = id THEN 403 ELSE 404,
                                    NoBody)
                      ELSE Response("UpdateItem", l, "", 200,
                                    <<set(CHOOSE it \in hit : TRUE)>>)
             /\ UNCHANGED <<lists, nextId, historyTable, hist, tasks, now>>

\* PATCH /api/lists/{listId}/items/{id}; a field that is Absent is not in the request
UpdateItem(l, id, in) ==
    IF in.name # Absent /\ NameLen(in.name[1]) > maxItemNameLength
    THEN /\ ev' = Response("UpdateItem", l, "", 400, NoBody)
         /\ UNCHANGED <<store, tasks, now>>
    ELSE IF in.checked = Absent /\ in.name = Absent /\ in.sort_order = Absent
    THEN /\ ev' = Response("UpdateItem", l, "", 400, NoBody)
         /\ UNCHANGED <<store, tasks, now>>
    ELSE LET hit == {it \in items : it.id = id /\ it.list_id = l}
             set(it) == [it EXCEPT
                 !.checked = IF in.checked = Absent THEN @ ELSE in.checked[1],
                 !.name = IF in.name = Absent THEN @ ELSE in.name[1],
                 !.sort_order = IF in.sort_order = Absent THEN @ ELSE in.sort_order[1]]
         IN  /\ items' = (items \ hit) \cup {set(it) : it \in hit}
             /\ ev' = IF hit = {}
                      THEN Response("UpdateItem", l, "", 404, NoBody)
                      ELSE Response("UpdateItem", l, "", 200,
                                    <<set(CHOOSE it \in hit : TRUE)>>)
             /\ UNCHANGED <<lists, nextId, historyTable, hist, tasks, now>>

\* faulty variant: the statement does not ask for the list
ReorderUpdateAnyList(its, l, id, pos) ==
    {IF it.id = id THEN [it EXCEPT !.sort_order = pos] ELSE it : it \in its}

\* faulty variant: positions counted from 0
ReorderUpdateZeroBased(its, l, id, pos) ==
    {IF it.id = id /\ it.list_id = l THEN [it EXCEPT !.sort_order = pos - 1] ELSE it
        : it \in its}

\* UPDATE items SET sort_order = $1 WHERE id = $2 AND list_id = $3
ReorderUpdate(its, l, id, pos) ==
    {IF it.id = id /\ it.list_id = l THEN [it EXCEPT !.sort_order = pos] ELSE it
        : it \in its}

\* the loop of ReorderItems over item_ids[1..k]
RECURSIVE ReorderApply(_, _, _, _)
ReorderApply(its, l, ids, k) ==
    IF k = 0 THEN its
    ELSE ReorderUpdate(ReorderApply(its, l, ids, k - 1), l, ids[k], k)

\* PUT /api/lists/{listId}/items/reorder
ReorderItems(l, ids) ==
    IF Len(ids) = 0
    THEN /\ ev' = Response("ReorderItems", l, "", 400, NoBody)
         /\ UNCHANGED <<store, tasks, now>>
    ELSE /\ items' = ReorderApply(items, l, ids, Len(ids))
         /\ ev' = Response("ReorderItems", l, "", 200, NoBody)
         /\ UNCHANGED <<lists, nextId, historyTable, hist, tasks, now>>

\* faulty variant: the statement does not ask for the list
DeleteItemAnyList(l, id) ==
    LET hit == {it \in items : it.id = id}
    IN  /\ items' = items \ hit
        /\ ev' = Response("DeleteItem", l, "", IF hit = {} THEN 404 ELSE 204, NoBody)
        /\ UNCHANGED <<lists, nextId, historyTable, hist, tasks, now>>

\* DELETE /api/lists/{listId}/items/{id}
DeleteItem(l, id) ==
    LET hit == {it \in items : it.id = id /\ it.list_id = l}
    IN  /\ items' = items \ hit
        /\ ev' = Response("DeleteItem", l, "", IF hit = {} THEN 404 ELSE 204, NoBody)
        /\ UNCHANGED <<lists, nextId, historyTable, hist, tasks, now>>

\* ORDER BY sort_order ASC, created_at DESC
ComesFirst(a, b) ==
    \/ a.sort_order < b.sort_order
    \/ a.sort_order = b.sort_order /\ a.created_at > b.created_at

RECURSIVE OrderBySortOrder(_)
OrderBySortOrder(S) ==
    IF S = {} THEN <<>>
    ELSE LET first == CHOOSE a \in S : \A b \in S \ {a} : ComesFirst(a, b)
         IN  <<first>> \o OrderBySortOrder(S \ {first})

\* GET /api/lists/{listId}/items
GetItems(l) ==
    /\ ev' = Response("GetItems", l, "", 200, OrderBySortOrder(ItemsOf(items, l)))
    /\ UNCHANGED <<store, tasks, now>>

\* ReorderItems up to the loop: decoding and the check of item_ids
ReorderBegin(c, l, ids) ==
    /\ Free(c)
    /\ IF Len(ids) = 0
       THEN /\ ev' = Response("ReorderItems", l, "", 400, NoBody)
            /\ UNCHANGED calls
       ELSE /\ calls' = [calls EXCEPT ![c] = Call("ReorderItems", l, ids, <<items>>, 0)]
            /\ ev' = Background("ReorderBegin", l, "", 0, FALSE)
    /\ UNCHANGED <<store, tasks, now>>

\* faulty variant: a failed statement is skipped and the loop goes on
ReorderStepSkip(c, dbErr) ==
    /\ Running(c, "ReorderItems")
    /\ LET l == calls[c].list
           ids == calls[c].in
           k == calls[c].k + 1
       IN  /\ items' = IF dbErr THEN items ELSE ReorderUpdate(items, l, ids[k], k)
           /\ IF k = Len(ids)
              THEN /\ ev' = IF dbErr THEN Failure("ReorderItems", l, "", 500)
                                     ELSE Response("ReorderItems", l, "", 200, NoBody)
                   /\ calls' = [calls EXCEPT ![c] = AnsweredCall([@ EXCEPT !.k = k], ev'.status)]
              ELSE /\ ev' = Background("ReorderStep", l, "", 0, dbErr)
                   /\ calls' = [calls EXCEPT ![c].k = k]
    /\ UNCHANGED <<lists, nextId, historyTable, hist, tasks, now>>

\* ReorderItems: one pass of the loop, the UPDATE of item_ids[k + 1], which
\* the store carries out or fails (dbErr); after the last one the response
ReorderStep(c, dbErr) ==
    /\ Running(c, "ReorderItems")
    /\ LET l == calls[c].list
           ids == calls[c].in
           k == calls[c].k + 1
       IN  IF dbErr
           THEN /\ items' = items
                /\ ev' = Failure("ReorderItems", l, "", 500)
                /\ calls' = [calls EXCEPT ![c] = AnsweredCall(@, 500)]
           ELSE /\ items' = ReorderUpdate(items, l, ids[k], k)
                /\ IF k = Len(ids)
                   THEN /\ ev' = Response("ReorderItems", l, "", 200, NoBody)
                        /\ calls' = [calls EXCEPT ![c] = AnsweredCall([@ EXCEPT !.k = k], 200)]
                   ELSE /\ ev' = Background("ReorderStep", l, "", 0, FALSE)
                        /\ calls' = [calls EXCEPT ![c].k = k]
    /\ UNCHANGED <<lists, nextId, historyTable, hist, tasks, now>>

\* POST /api/lists/{listId}/recommendations/{name}/dismiss
DismissRecommendation(l, n) ==
    IF ~historyTable
    THEN /\ ev' = Failure("DismissRecommendation", l, n, 500)
         /\ UNCHANGED <<store, tasks, now>>
    ELSE /\ hist' = DismissHistory(hist, l, n)
         /\ ev' = Response("DismissRecommendation", l, n, 200, NoBody)
         /\ UNCHANGED <<lists, items, nextId, historyTable, tasks, now>>

-----------------------------------------------------------------------------
(* List handlers *)

\* POST /api/lists; in.hex_color = "" is a request without a colour.  The store
\* generates the id of the new row.
CreateList(in) ==
    LET hex == IF in.hex_color = "" THEN DefaultHexColor ELSE in.hex_color
    IN  IF in.name = ""
        THEN /\ ev' = Response("CreateList", "", in.name, 400, NoBody)
             /\ UNCHANGED <<store, tasks, now>>
        ELSE IF NameLen(in.name) > maxListNameLength
        THEN /\ ev' = Response("CreateList", "", in.name, 400, NoBody)
             /\ UNCHANGED <<store, tasks, now>>
        ELSE IF NameLen(hex) > maxHexColorLength
        THEN /\ ev' = Response("CreateList", "", in.name, 400, NoBody)
             /\ UNCHANGED <<store, tasks, now>>
        ELSE \E id \in ListIds \ DOMAIN lists :
                LET row == ListRow(id, in.name, in.emoji, hex, now)
                IN  /\ lists' = [l \in DOMAIN lists \cup {id} |->
                                    IF l = id THEN row ELSE lists[l]]
                    /\ ev' = Response("CreateList", id, in.name, 201, <<row>>)
                    /\ UNCHANGED <<items, nextId, historyTable, hist, tasks, now>>

\* faulty variant: the emoji of the request is stored also when the request
\* has none
ListUpdatedEmojiAlways(row, in) ==
    [row EXCEPT !.name = IF in.name = Absent THEN @ ELSE in.name[1],
                !.emoji = in.emoji,
                !.hex_color = IF in.hex_color = Absent THEN @ ELSE in.hex_color[1]]

\* UpdateList, "Apply updates": the fields of the request laid over the row
\* that was fetched
ListUpdated(row, in) ==
    [row EXCEPT !.name = IF in.name = Absent THEN @ ELSE in.name[1],
                !.emoji = IF in.emoji = Absent THEN @ ELSE in.emoji,
                !.hex_color = IF in.hex_color = Absent THEN @ ELSE in.hex_color[1]]

\* PATCH /api/lists/{id}, up to and including "Fetch current list first"
UpdateListFetch(c, id, in) ==
    /\ Free(c)
    /\ IF in.name # Absent /\ NameLen(in.name[1]) > maxListNameLength
       THEN /\ ev' = Response("UpdateList", id, "", 400, NoBody)
            /\ UNCHANGED calls
       ELSE IF in.hex_color # Absent /\ NameLen(in.hex_color[1]) > maxHexColorLength
       THEN /\ ev' = Response("UpdateList", id, "", 400, NoBody)
            /\ UNCHANGED calls
       ELSE IF id \notin DOMAIN lists
       THEN /\ ev' = Response("UpdateList", id, "", 404, NoBody)
            /\ UNCHANGED calls
       ELSE /\ calls' = [calls EXCEPT ![c] = Call("UpdateList", id, in, <<lists[id]>>, 1)]
            /\ ev' = Background("UpdateListFetch", id, "", 1, FALSE)
    /\ UNCHANGED <<store, tasks, now>>

\* faulty variant: the statement lays the request over the row as it is
\* stored when the statement runs
UpdateListWriteCurrent(c) ==
    /\ Running(c, "UpdateList")
    /\ LET id == calls[c].list
       IN  IF id \in DOMAIN lists
           THEN /\ lists' = [lists EXCEPT ![id] = ListUpdated(@, calls[c].in)]
                /\ ev' = Response("UpdateList", id, "", 200, <<lists'[id]>>)
           ELSE /\ lists' = lists
                /\ ev' = Failure("UpdateList", id, "", 500)
    /\ calls' = [calls EXCEPT ![c] = AnsweredCall(@, ev'.status)]
    /\ UNCHANGED <<items, nextId, historyTable, hist, tasks, now>>

\* PATCH /api/lists/{id}, "Save changes": UPDATE lists SET name = $1,
\* emoji = $2, hex_color = $3 WHERE id = $4 RETURNING ...
UpdateListWrite(c) ==
    /\ Running(c, "UpdateList")
    /\ LET id == calls[c].list
           new == ListUpdated(calls[c].row[1], calls[c].in)
       IN  IF id \in DOMAIN lists
           THEN /\ lists' = [lists EXCEPT ![id] =
                                 [@ EXCEPT !.name = new.name, !.emoji = new.emoji,
                                           !.hex_color = new.hex_color]]
                /\ ev' = Response("UpdateList", id, "", 200, <<lists'[id]>>)
           ELSE /\ lists' = lists
                /\ ev' = Failure("UpdateList", id, "", 500)
    /\ calls' = [calls EXCEPT ![c] = AnsweredCall(@, ev'.status)]
    /\ UNCHANGED <<items, nextId, historyTable, hist, tasks, now>>

\* the rows of table h whose list_id is not l
WithoutList(h, l) == SelectSeq(h, LAMBDA r : r.list_id # l)

\* faulty variant: the rows that refer to the list stay
DeleteListNoCascade(id) ==
    /\ IF id \in DOMAIN lists
       THEN /\ lists' = [l \in DOMAIN lists \ {id} |-> lists[l]]
            /\ ev' = Response("DeleteList", id, "", 204, NoBody)
       ELSE /\ lists' = lists
            /\ ev' = Response("DeleteList", id, "", 404, NoBody)
    /\ UNCHANGED <<items, hist, nextId, historyTable, tasks, now>>

\* DELETE /api/lists/{id}: DELETE FROM lists WHERE id = $1, with
\* items.list_id and item_history.list_id REFERENCES lists(id) ON DELETE CASCADE
DeleteList(id) ==
    /\ IF id \in DOMAIN lists
       THEN /\ lists' = [l \in DOMAIN lists \ {id} |-> lists[l]]
            /\ items' = items \ ItemsOf(items, id)
            /\ hist' = WithoutList(hist, id)
            /\ ev' = Response("DeleteList", id, "", 204, NoBody)
       ELSE /\ UNCHANGED <<lists, items, hist>>
            /\ ev' = Response("DeleteList", id, "", 404, NoBody)
    /\ UNCHANGED <<nextId, historyTable, tasks, now>>

-----------------------------------------------------------------------------
(* The recommendation query *)

\* faulty variant: whole days, the fraction of the quotient dropped
UrgencyWholeDays(r, t) ==
    IF r.avg_days_between[1] > 0
    THEN <<(DaysSince(r, t) * r.avg_days_between[2]) \div r.avg_days_between[1], 1>>
    ELSE Half

\* CASE WHEN avg_days_between > 0 THEN days / avg_days_between ELSE 0.5 END
Urgency(r, t) ==
    IF r.avg_days_between[1] > 0
    THEN Rat(DaysSince(r, t) * r.avg_days_between[2], r.avg_days_between[1])
    ELSE Half

\* faulty variant: a name added once is selected
SelectedOnce(r, its, l) ==
    /\ r.list_id = l
    /\ r.dismissed = FALSE
    /\ r.added_count >= 1
    /\ r.item_name \notin {it.name : it \in ItemsOf(its, l)}

\* WHERE list_id = $1 AND dismissed = false AND added_count >= 2
\*   AND item_name NOT IN (SELECT name FROM items WHERE list_id = $1)
Selected(r, its, l) ==
    /\ r.list_id = l
    /\ r.dismissed = FALSE
    /\ r.added_count >= 2
    /\ r.item_name \notin {it.name : it \in ItemsOf(its, l)}

Rec(r, t) == [name |-> r.item_name, urgency |-> Urgency(r, t)]

\* the selected rows in storage order, as (name, urgency)
RECURSIVE Candidates(_, _, _, _)
Candidates(h, its, l, t) ==
    IF h = <<>> THEN <<>>
    ELSE LET rest == Candidates(Tail(h), its, l, t)
         IN  IF Selected(Head(h), its, l) THEN <<Rec(Head(h), t)>> \o rest ELSE rest

Remove(s, i) == SubSeq(s, 1, i - 1) \o SubSeq(s, i + 1, Len(s))

\* ORDER BY urgency DESC; rows of equal urgency come in storage order
\* (tb = "first") or in reverse storage order (tb = "last")
RECURSIVE OrderByUrgencyDesc(_, _)
OrderByUrgencyDesc(s, tb) ==
    IF s = <<>> THEN <<>>
    ELSE LET top == {i \in 1..Len(s) : \A j \in 1..Len(s) : RatGE(s[i].urgency, s[j].urgency)}
             i == IF tb = "first" THEN CHOOSE x \in top : \A y \in top : x <= y
                                  ELSE CHOOSE x \in top : \A y \in top : x >= y
         IN  <<s[i]>> \o OrderByUrgencyDesc(Remove(s, i), tb)

\* LIMIT 10
Limit(s, k) == SubSeq(s, 1, IF Len(s) < k THEN Len(s) ELSE k)

\* if rec.Urgency >= 0.5 { recs = append(recs, rec) }
RECURSIVE UrgentOnly(_)
UrgentOnly(s) ==
    IF s = <<>> THEN <<>>
    ELSE IF RatGE(Head(s).urgency, Half) THEN <<Head(s)>> \o UrgentOnly(Tail(s))
         ELSE UrgentOnly(Tail(s))

\* faulty variant: LIMIT 10 cuts the rows before they are ordered
RecommendationsCutFirst(h, its, l, t, tb) ==
    UrgentOnly(OrderByUrgencyDesc(Limit(Candidates(h, its, l, t), RecLimit), tb))

Recommendations(h, its, l, t, tb) ==
    UrgentOnly(Limit(OrderByUrgencyDesc(Candidates(h, its, l, t), tb), RecLimit))

TieBreaks == {"first", "last"}

\* faulty variant: the error of the history query is passed on to the client
RecommendationsFailureSurfaced(l) == Failure("GetRecommendations", l, "", 500)

\* if err != nil { w.Write([]byte("[]")); return }
RecommendationsFailure(l) == Failure("GetRecommendations", l, "", 200)

\* GET /api/lists/{listId}/recommendations; dbErr: the query fails for another
\* reason than a missing table
GetRecommendations(l, dbErr, tb) ==
    /\ ev' = IF dbErr \/ ~historyTable
             THEN RecommendationsFailure(l)
             ELSE Response("GetRecommendations", l, "", 200,
                           Recommendations(hist, items, l, now, tb))
    /\ UNCHANGED <<store, tasks, now>>

-----------------------------------------------------------------------------
(* History variables: what the requests so far asked for.  They are written
   by no handler and read by none. *)

Created == ev'.op = "CreateItem" /\ ev'.status = 201

\* a stored CreateItem(l, n) is one addition of n to l
ObserveAdded(l, n) ==
    added' = IF Created THEN [added EXCEPT ![<<l, n>>] = @ + 1] ELSE added

\* an addition of a name whose history row is dismissed is a re-add: the count
\* of additions restarts with it
ObserveReset(l, n) ==
    sinceReset' =
        IF Created
        THEN [sinceReset EXCEPT ![<<l, n>>] =
                 IF HasRow(hist, l, n) /\ RowOf(hist, l, n).dismissed THEN 1 ELSE @ + 1]
        ELSE sinceReset

\* an addition of n to l ends what a dismissal of (l, n) asked for
ObserveReadded(l, n) ==
    dismissedFor' = IF Created THEN dismissedFor \ {<<l, n>>} ELSE dismissedFor

ObserveDismissed(l, n) ==
    dismissedFor' =
        IF ev'.op = "DismissRecommendation" /\ ev'.status = 200
        THEN dismissedFor \cup {<<l, n>>} ELSE dismissedFor

-----------------------------------------------------------------------------
(* Requests *)

UpdateInputs ==
    { [checked |-> Absent, name |-> Absent, sort_order |-> Absent],
      [checked |-> Absent, name |-> Some("Milk"), sort_order |-> Absent] }

ItemIds == 1..MaxItems

ReorderInputs ==
    {<<>>} \cup {<<a>> : a \in ItemIds}
           \cup {<<a, b>> : <<a, b>> \in {p \in ItemIds \X ItemIds : p[1] # p[2]}}

\* the list the requests of Spec and SpecSeq address
Target == "L1"

\* an id that no list has
MissingList == "L0"

\* props.id of the list page: the list it shows
props_id == Target

-----------------------------------------------------------------------------
(* Spec: requests to one list, the TrackItemAddition goroutines running
   concurrently with them and with each other. *)

ClockTick == Tick /\ UNCHANGED <<ghost, requests, limiter, page>>

DoCreateItem ==
    \E n \in ItemNames :
        /\ CreateItem(Target, n, FALSE)
        /\ ObserveAdded(Target, n)
        /\ ObserveReadded(Target, n)
        /\ UNCHANGED <<sinceReset, requests, limiter, page>>

DoTrackUpdate == \E l \in ListIds, n \in InputNames : TrackUpdate(l, n) /\ UNCHANGED <<ghost, requests, limiter, page>>

DoTrackInsert == \E l \in ListIds, n \in InputNames : TrackInsert(l, n) /\ UNCHANGED <<ghost, requests, limiter, page>>

DoDeleteItem == \E id \in ItemIds : DeleteItem(Target, id) /\ UNCHANGED <<ghost, requests, limiter, page>>

DoDismiss ==
    \E n \in ItemNames :
        /\ DismissRecommendation(Target, n)
        /\ ObserveDismissed(Target, n)
        /\ UNCHANGED <<added, sinceReset, requests, limiter, page>>

DoGetRecommendations ==
    \E dbErr \in BOOLEAN, tb \in TieBreaks :
        GetRecommendations(Target, dbErr, tb) /\ UNCHANGED <<ghost, requests, limiter, page>>

Next ==
    \/ ClockTick
    \/ DoCreateItem
    \/ DoTrackUpdate
    \/ DoTrackInsert
    \/ DoDeleteItem
    \/ DoDismiss
    \/ DoGetRecommendations

Spec == Init /\ [][Next]_vars

-----------------------------------------------------------------------------
(* SpecSeq: an addition starts only when the TrackItemAddition of the one
   before has completed; items are also renamed and reordered.  The clock
   stands still. *)

SeqCreateItem ==
    \E n \in ItemNames :
        /\ NoTasks
        /\ CreateItem(Target, n, FALSE)
        /\ ObserveAdded(Target, n)
        /\ ObserveReset(Target, n)
        /\ UNCHANGED <<dismissedFor, requests, limiter, page>>

SeqUpdateItem ==
    \E id \in ItemIds, in \in UpdateInputs :
        UpdateItem(Target, id, in) /\ UNCHANGED <<ghost, requests, limiter, page>>

SeqReorderItems ==
    \E ids \in ReorderInputs : ReorderItems(Target, ids) /\ UNCHANGED <<ghost, requests, limiter, page>>

SeqDismiss ==
    \E n \in ItemNames : DismissRecommendation(Target, n) /\ UNCHANGED <<ghost, requests, limiter, page>>

NextSeq ==
    \/ SeqCreateItem
    \/ DoTrackUpdate
    \/ DoTrackInsert
    \/ SeqUpdateItem
    \/ SeqReorderItems
    \/ DoDeleteItem
    \/ SeqDismiss

SpecSeq == Init /\ [][NextSeq]_vars

-----------------------------------------------------------------------------
(* SpecSep: the only items created are separators, with no name or with one;
   their TrackItemAddition goroutines run concurrently with the requests. *)

SeparatorNames == {"", "milk"}

SepCreateItem ==
    \E n \in SeparatorNames :
        CreateItem(Target, n, TRUE) /\ UNCHANGED <<ghost, requests, limiter, page>>

NextSep ==
    \/ ClockTick
    \/ SepCreateItem
    \/ DoTrackUpdate
    \/ DoTrackInsert
    \/ DoDeleteItem
    \/ DoGetRecommendations

SpecSep == Init /\ [][NextSep]_vars

-----------------------------------------------------------------------------
(* SpecCascade: lists are deleted while clients create items in them
   statement by statement and while TrackItemAddition goroutines run. *)

CasCreateItemMax ==
    \E c \in Clients, l \in ListIds :
        /\ CreateItemMax(c, l, "milk", FALSE)
        /\ req' = Request(c, "CreateItem", l, 0, [name |-> "milk", is_separator |-> FALSE])
        /\ UNCHANGED <<limiter, page>>
        /\ UNCHANGED ghost

CasCreateItemInsert ==
    \E c \in Clients :
        /\ CreateItemInsert(c)
        /\ req' = Request(c, "CreateItem", calls[c].list, 0, calls[c].in)
        /\ UNCHANGED <<limiter, page>>
        /\ UNCHANGED ghost

CasDeleteList ==
    \E id \in ListIds :
        /\ DeleteList(id)
        /\ req' = Request(0, "DeleteList", id, 0, <<>>)
        /\ UNCHANGED <<limiter, page>>
        /\ UNCHANGED <<ghost, calls>>

NextCascade ==
    \/ CasCreateItemMax
    \/ CasCreateItemInsert
    \/ CasDeleteList
    \/ DoTrackUpdate
    \/ DoTrackInsert

SpecCascade == Init /\ [][NextCascade]_vars

-----------------------------------------------------------------------------
(* SpecRecs: the recommendation query on history tables of MaxRows rows.  A
   table is what earlier additions and dismissals left: every row is Typical
   (a name added twice on day 0) but for at most two rows, which are any of
   Profiles.  The store holds no item or two. *)

RowNames ==
    <<"milk", "Milk", "eggs", "bread", "rice", "salt", "tea", "jam", "oil",
      "flour", "soap", "beer", "corn", "kiwi">>

\* added on days 0 and 0
Typical ==
    [list_id |-> "L1", added_count |-> 2, avg_days_between |-> <<7, 2>>,
     last_added_at |-> 0, dismissed |-> FALSE]

Profiles ==
    { Typical,
      \* added on days -16, -12 and -8
      [list_id |-> "L1", added_count |-> 3, avg_days_between |-> <<5, 1>>,
       last_added_at |-> -8, dismissed |-> FALSE],
      \* added on days -7 and 0
      [list_id |-> "L1", added_count |-> 2, avg_days_between |-> <<7, 1>>,
       last_added_at |-> 0, dismissed |-> FALSE],
      \* added once, on day -8
      [list_id |-> "L1", added_count |-> 1, avg_days_between |-> <<7, 1>>,
       last_added_at |-> -8, dismissed |-> FALSE],
      \* added on days -16, -12 and -8, then dismissed
      [list_id |-> "L1", added_count |-> 3, avg_days_between |-> <<5, 1>>,
       last_added_at |-> -8, dismissed |-> TRUE],
      \* added to the other list on days -16, -12 and -8
      [list_id |-> "L2", added_count |-> 3, avg_days_between |-> <<5, 1>>,
       last_added_at |-> -8, dismissed |-> FALSE],
      \* a row with avg_days_between = 0: the column admits it, TrackItemAddition
      \* writes none
      [list_id |-> "L1", added_count |-> 2, avg_days_between |-> <<0, 1>>,
       last_added_at |-> 0, dismissed |-> FALSE] }

HistoryRow(k, p) ==
    [list_id |-> p.list_id, item_name |-> RowNames[k], added_count |-> p.added_count,
     last_added_at |-> p.last_added_at, avg_days_between |-> p.avg_days_between,
     dismissed |-> p.dismissed]

Table(i, p, j, q) ==
    [k \in 1..MaxRows |->
        IF k = i THEN HistoryRow(k, p)
        ELSE IF k = j THEN HistoryRow(k, q) ELSE HistoryRow(k, Typical)]

Tables == {Table(i, p, j, q) : i \in 1..MaxRows, j \in 1..MaxRows, p \in Profiles, q \in Profiles}

\* "Milk" is in list L1 and "eggs" in list L2
StoredItems == {NewItem(1, "L1", "Milk", FALSE, 1), NewItem(2, "L2", "eggs", FALSE, 1)}

InitRecs ==
    /\ lists = StoredLists
    /\ items \in {{}, StoredItems}
    /\ nextId = 3
    /\ historyTable = TRUE
    /\ hist \in Tables
    /\ tasks = EmptyBag
    /\ now = 0
    /\ ev = Response("init", "", "", 0, NoBody)
    /\ added = [k \in Keys |-> 0]
    /\ sinceReset = [k \in Keys |-> 0]
    /\ dismissedFor = {}
    /\ calls = [c \in Clients |-> Idle]
    /\ req = NoRequest
    /\ NoTraffic
    /\ page = NoPage

RecsGetRecommendations ==
    \E l \in ListIds, tb \in TieBreaks :
        GetRecommendations(l, FALSE, tb) /\ UNCHANGED <<ghost, requests, limiter, page>>

NextRecs ==
    \/ ClockTick
    \/ RecsGetRecommendations

SpecRecs == InitRecs /\ [][NextRecs]_vars

-----------------------------------------------------------------------------
(* SpecLists: CreateList and UpdateList of clients whose calls interleave
   statement by statement.  The store holds list L1. *)

CreateListInputs ==
    { [name |-> "", emoji |-> Absent, hex_color |-> ""],
      [name |-> LongListName, emoji |-> Absent, hex_color |-> ""],
      [name |-> MultiByteListName, emoji |-> Absent, hex_color |-> ""],
      [name |-> "Home", emoji |-> Absent, hex_color |-> LongHexColor],
      [name |-> "Home", emoji |-> Some("house"), hex_color |-> ""] }

UpdateListInputs ==
    { [name |-> Some(""), emoji |-> Absent, hex_color |-> Absent],
      [name |-> Some("Home"), emoji |-> Absent, hex_color |-> Absent],
      [name |-> Some(LongListName), emoji |-> Absent, hex_color |-> Absent],
      [name |-> Some(MultiByteListName), emoji |-> Absent, hex_color |-> Absent],
      [name |-> Absent, emoji |-> Absent, hex_color |-> Some("ff0000")],
      [name |-> Absent, emoji |-> Some("house"), hex_color |-> Some(LongHexColor)] }

InitLists ==
    /\ lists = [l \in {Target} |-> StoredLists[l]]
    /\ items = {}
    /\ nextId = 1
    /\ historyTable = TRUE
    /\ hist = <<>>
    /\ tasks = EmptyBag
    /\ now = 0
    /\ ev = Response("init", "", "", 0, NoBody)
    /\ added = [k \in Keys |-> 0]
    /\ sinceReset = [k \in Keys |-> 0]
    /\ dismissedFor = {}
    /\ calls = [c \in Clients |-> Idle]
    /\ req = NoRequest
    /\ NoTraffic
    /\ page = NoPage

LstCreateList ==
    \E in \in CreateListInputs :
        /\ CreateList(in)
        /\ req' = Request(0, "CreateList", "", 0, in)
        /\ UNCHANGED <<limiter, page>>
        /\ UNCHANGED <<ghost, calls>>

LstUpdateListFetch ==
    \E c \in Clients, id \in {Target, MissingList}, in \in UpdateListInputs :
        /\ UpdateListFetch(c, id, in)
        /\ req' = Request(c, "UpdateList", id, 0, in)
        /\ UNCHANGED <<limiter, page>>
        /\ UNCHANGED ghost

LstUpdateListWrite ==
    \E c \in Clients :
        /\ UpdateListWrite(c)
        /\ req' = Request(c, "UpdateList", calls[c].list, 0, calls[c].in)
        /\ UNCHANGED <<limiter, page>>
        /\ UNCHANGED ghost

NextLists ==
    \/ LstCreateList
    \/ LstUpdateListFetch
    \/ LstUpdateListWrite

SpecLists == InitLists /\ [][NextLists]_vars

-----------------------------------------------------------------------------
(* SpecOrder: ReorderItems statement by statement, one call at a time, on a
   store with three items in list L1 and one in list L2; any statement of the
   loop may fail. *)

\* the longest item_ids of a request
MaxIds == 3

\* items as CreateItem stored them
StoredInOrder ==
    { NewItem(1, "L1", "milk", FALSE, 1), NewItem(2, "L1", "eggs", FALSE, 2),
      NewItem(3, "L1", "rice", FALSE, 3), NewItem(4, "L2", "soap", FALSE, 1) }

\* an id that no item has
MissingItem == 9

\* the sequences of at most n different elements of S
RECURSIVE Injective(_, _)
Injective(S, n) ==
    IF n = 0 THEN {<<>>}
    ELSE LET shorter == Injective(S, n - 1)
         IN  shorter \cup
             UNION {{Append(q, x) : x \in S \ {q[i] : i \in DOMAIN q}} : q \in shorter}

OrderInputs == Injective({1, 2, 3, 4, MissingItem}, MaxIds)

InitOrder ==
    /\ lists = StoredLists
    /\ items = StoredInOrder
    /\ nextId = 5
    /\ historyTable = TRUE
    /\ hist = <<>>
    /\ tasks = EmptyBag
    /\ now = 0
    /\ ev = Response("init", "", "", 0, NoBody)
    /\ added = [k \in Keys |-> 0]
    /\ sinceReset = [k \in Keys |-> 0]
    /\ dismissedFor = {}
    /\ calls = [c \in Clients |-> Idle]
    /\ req = NoRequest
    /\ NoTraffic
    /\ page = NoPage

OrdBegin ==
    \E c \in {1}, ids \in OrderInputs :
        /\ ReorderBegin(c, Target, ids)
        /\ req' = Request(c, "ReorderItems", Target, 0, ids)
        /\ UNCHANGED <<limiter, page>>
        /\ UNCHANGED ghost

OrdStep ==
    \E c \in {1}, dbErr \in BOOLEAN :
        /\ ReorderStep(c, dbErr)
        /\ req' = Request(c, "ReorderItems", calls[c].list, 0, calls[c].in)
        /\ UNCHANGED <<limiter, page>>
        /\ UNCHANGED ghost

OrdGetItems ==
    \E l \in ListIds :
        /\ GetItems(l)
        /\ req' = Request(0, "GetItems", l, 0, <<>>)
        /\ UNCHANGED <<limiter, page>>
        /\ UNCHANGED <<ghost, calls>>

NextOrder ==
    \/ OrdBegin
    \/ OrdStep
    \/ OrdGetItems

SpecOrder == InitOrder /\ [][NextOrder]_vars

-----------------------------------------------------------------------------
(* SpecOrderRace: the ReorderItems calls of two clients on the stored list of
   three items, each with an order of all ids of the list, interleaving
   statement by statement; no statement fails. *)

\* three of the six orders of the ids of the list
ListOrders == {<<1, 2, 3>>, <<3, 1, 2>>, <<1, 3, 2>>}

RaceBegin ==
    \E c \in Clients, ids \in ListOrders :
        /\ ReorderBegin(c, Target, ids)
        /\ req' = Request(c, "ReorderItems", Target, 0, ids)
        /\ UNCHANGED <<limiter, page>>
        /\ UNCHANGED ghost

RaceStep ==
    \E c \in Clients :
        /\ ReorderStep(c, FALSE)
        /\ req' = Request(c, "ReorderItems", calls[c].list, 0, calls[c].in)
        /\ UNCHANGED <<limiter, page>>
        /\ UNCHANGED ghost

NextOrderRace ==
    \/ RaceBegin
    \/ RaceStep

SpecOrderRace == InitOrder /\ [][NextOrderRace]_vars

-----------------------------------------------------------------------------
(* SpecTrack: additions of names to list L1 tracked while the clock advances,
   on a history table that is empty or holds the row that earlier additions
   of "milk" left. *)

\* the profiles that additions to L1 leave
TrackedProfiles ==
    {p \in Profiles : p.list_id = "L1" /\ p.avg_days_between # <<0, 1>>}

InitTrack ==
    /\ lists = StoredLists
    /\ items = {}
    /\ nextId = 1
    /\ historyTable = TRUE
    /\ hist \in {<<>>} \cup {<<HistoryRow(1, p)>> : p \in TrackedProfiles}
    /\ tasks = EmptyBag
    /\ now = 0
    /\ ev = Response("init", "", "", 0, NoBody)
    /\ added = [k \in Keys |-> 0]
    /\ sinceReset = [k \in Keys |-> 0]
    /\ dismissedFor = {}
    /\ calls = [c \in Clients |-> Idle]
    /\ req = NoRequest
    /\ NoTraffic
    /\ page = NoPage

NextTrack ==
    \/ ClockTick
    \/ DoCreateItem
    \/ DoTrackUpdate
    \/ DoTrackInsert

SpecTrack == InitTrack /\ [][NextTrack]_vars

-----------------------------------------------------------------------------
(* rateLimitMiddleware.  In SpecRate the clock counts minutes. *)

\* requests per window
rateLimit == 100

\* time.Minute
rateLimitWindow == 1

\* the number of requests of a behaviour of SpecRate
MaxRequests == 6

\* strings.Split(forwarded, ",")[0]
FirstEntry(h) ==
    CASE h = "10.0.0.1, 10.0.0.9" -> "10.0.0.1"
      [] OTHER -> h

\* r.RemoteAddr, or the first entry of X-Forwarded-For when the header is set
ClientKey(r) == IF r.forwarded # "" THEN FirstEntry(r.forwarded) ELSE r.remote

\* two clients behind the same remote address, one of them named by a proxy
HttpRequests ==
    { [remote |-> "10.0.0.2:5000", forwarded |-> "", path |-> "/api/lists"],
      [remote |-> "10.0.0.2:5000", forwarded |-> "10.0.0.1, 10.0.0.9", path |-> "/api/lists"],
      [remote |-> "10.0.0.2:5000", forwarded |-> "10.0.0.1, 10.0.0.9", path |-> "/health"] }

\* &rateLimitEntry{count, resetTime}
Entry(count, resetTime) == <<[count |-> count, resetTime |-> resetTime]>>

\* the window of key is open: the key has an entry that has not expired
InWindow(key) == rateLimits[key] # NoEntry /\ ~(now > rateLimits[key][1].resetTime)

\* the middleware up to rateLimitMu.Lock(): a health check is passed on at
\* once, any other request of client c waits for the mutex
RateArrive(c, r) ==
    /\ Free(c)
    /\ arrived < MaxRequests
    /\ arrived' = arrived + 1
    /\ IF r.path = "/health"
       THEN /\ ev' = Background("next.ServeHTTP", ClientKey(r), r.path, 1, FALSE)
            /\ forwarded' = IF InWindow(ClientKey(r))
                            THEN [forwarded EXCEPT ![ClientKey(r)].health = @ + 1]
                            ELSE forwarded
            /\ UNCHANGED calls
       ELSE /\ ev' = Background("rateLimitMiddleware", ClientKey(r), r.path, 0, FALSE)
            /\ calls' = [calls EXCEPT ![c] = Call("rateLimitMiddleware", ClientKey(r), r, <<>>, 0)]
            /\ UNCHANGED forwarded
    /\ UNCHANGED <<store, tasks, now, rateLimits, rateLimitMu>>

\* rateLimitMu.Lock() returns
RateLock(c) ==
    /\ Running(c, "rateLimitMiddleware")
    /\ calls[c].k = 0
    /\ rateLimitMu = 0
    /\ rateLimitMu' = c
    /\ calls' = [calls EXCEPT ![c].k = 1]
    /\ ev' = Background("Lock", calls[c].list, calls[c].in.path, 0, FALSE)
    /\ UNCHANGED <<store, tasks, now, rateLimits, forwarded, arrived>>

\* faulty variant: the request that finds count = rateLimit is passed on
RateDecideOneMore(c) ==
    /\ Running(c, "rateLimitMiddleware")
    /\ calls[c].k = 1
    /\ LET ip == calls[c].list
           entry == rateLimits[ip]
       IN  IF entry = NoEntry \/ now > entry[1].resetTime
           THEN /\ rateLimits' = [rateLimits EXCEPT ![ip] = Entry(1, now + rateLimitWindow)]
                /\ forwarded' = [forwarded EXCEPT ![ip] = [limited |-> 1, health |-> 0]]
                /\ ev' = Background("next.ServeHTTP", ip, calls[c].in.path, 1, FALSE)
           ELSE IF entry[1].count > rateLimit
           THEN /\ ev' = Response("rateLimitMiddleware", ip, calls[c].in.path, 429, NoBody)
                /\ UNCHANGED <<rateLimits, forwarded>>
           ELSE /\ rateLimits' = [rateLimits EXCEPT ![ip] = Entry(entry[1].count + 1, entry[1].resetTime)]
                /\ forwarded' = [forwarded EXCEPT ![ip].limited = @ + 1]
                /\ ev' = Background("next.ServeHTTP", ip, calls[c].in.path, 1, FALSE)
    /\ rateLimitMu' = 0
    /\ calls' = [calls EXCEPT ![c] = Idle]
    /\ UNCHANGED <<store, tasks, now, arrived>>

\* the middleware from entry, exists := rateLimits[ip] and now := time.Now()
\* on, under the mutex: a new window, or 429, or count++; then Unlock
RateDecide(c) ==
    /\ Running(c, "rateLimitMiddleware")
    /\ calls[c].k = 1
    /\ LET ip == calls[c].list
           entry == rateLimits[ip]
       IN  IF entry = NoEntry \/ now > entry[1].resetTime
           THEN /\ rateLimits' = [rateLimits EXCEPT ![ip] = Entry(1, now + rateLimitWindow)]
                /\ forwarded' = [forwarded EXCEPT ![ip] = [limited |-> 1, health |-> 0]]
                /\ ev' = Background("next.ServeHTTP", ip, calls[c].in.path, 1, FALSE)
           ELSE IF entry[1].count >= rateLimit
           THEN /\ ev' = Response("rateLimitMiddleware", ip, calls[c].in.path, 429, NoBody)
                /\ UNCHANGED <<rateLimits, forwarded>>
           ELSE /\ rateLimits' = [rateLimits EXCEPT ![ip] = Entry(entry[1].count + 1, entry[1].resetTime)]
                /\ forwarded' = [forwarded EXCEPT ![ip].limited = @ + 1]
                /\ ev' = Background("next.ServeHTTP", ip, calls[c].in.path, 1, FALSE)
    /\ rateLimitMu' = 0
    /\ calls' = [calls EXCEPT ![c] = Idle]
    /\ UNCHANGED <<store, tasks, now, arrived>>

-----------------------------------------------------------------------------
(* SpecRate: the requests of two clients pass rateLimitMiddleware while the
   clock advances.  The map is empty, or the window of key 10.0.0.1 was opened
   at minute 0 and 98 or 99 of its requests were passed on. *)

InitRate ==
    /\ lists = StoredLists
    /\ items = {}
    /\ nextId = 1
    /\ historyTable = TRUE
    /\ hist = <<>>
    /\ tasks = EmptyBag
    /\ now = 0
    /\ ev = Response("init", "", "", 0, NoBody)
    /\ added = [k \in Keys |-> 0]
    /\ sinceReset = [k \in Keys |-> 0]
    /\ dismissedFor = {}
    /\ calls = [c \in Clients |-> Idle]
    /\ req = NoRequest
    /\ \E n \in {0, rateLimit - 2, rateLimit - 1} :
        /\ rateLimits = [key \in ClientKeys |->
                IF key = "10.0.0.1" /\ n > 0 THEN Entry(n, rateLimitWindow) ELSE NoEntry]
        /\ forwarded = [key \in ClientKeys |->
                [limited |-> IF key = "10.0.0.1" THEN n ELSE 0, health |-> 0]]
    /\ rateLimitMu = 0
    /\ arrived = 0
    /\ page = NoPage

RateTick == Tick /\ UNCHANGED <<ghost, requests, limiter, page>>

RateDoArrive ==
    \E c \in Clients, r \in HttpRequests :
        /\ RateArrive(c, r)
        /\ req' = Request(c, "rateLimitMiddleware", ClientKey(r), 0, r)
        /\ UNCHANGED <<ghost, page>>

RateDoLock ==
    \E c \in Clients :
        /\ RateLock(c)
        /\ req' = Request(c, "rateLimitMiddleware", calls[c].list, 0, calls[c].in)
        /\ UNCHANGED <<ghost, page>>

RateDoDecide ==
    \E c \in Clients :
        /\ RateDecide(c)
        /\ req' = Request(c, "rateLimitMiddleware", calls[c].list, 0, calls[c].in)
        /\ UNCHANGED <<ghost, page>>

NextRate ==
    \/ RateTick
    \/ RateDoArrive
    \/ RateDoLock
    \/ RateDoDecide

SpecRate == InitRate /\ [][NextRate]_vars

-----------------------------------------------------------------------------
(* The list page of the frontend (ListPage.vue).  page.items is items.value,
   which the template renders in its order; page.pc is where the handler of a
   drag-and-drop stands; page.sent is newOrder.  The page is client 1. *)

PageClient == 1

\* items.value.map(item => item.id)
IdsOf(rows) == [i \in DOMAIN rows |-> rows[i].id]

\* items.value.splice(newIndex, 0, items.value.splice(oldIndex, 1)[0]), with
\* the indices of the event counted from 0
Move(s, oldIndex, newIndex) ==
    LET moved == s[oldIndex + 1]
        rest == Remove(s, oldIndex + 1)
    IN  SubSeq(rest, 1, newIndex) \o <<moved>> \o SubSeq(rest, newIndex + 1, Len(rest))

\* onEnd up to the fetch of reorderItems: the array is reordered, newOrder
\* is taken from it
PageDrag(oldIndex, newIndex) ==
    /\ page.pc = "idle"
    /\ Len(page.items) > 0
    /\ LET moved == Move(page.items, oldIndex, newIndex)
       IN  page' = [page EXCEPT !.items = moved, !.sent = IdsOf(moved), !.pc = "sending"]
    /\ ev' = Background("onEnd", props_id, "", 0, FALSE)
    /\ UNCHANGED <<store, tasks, now, calls>>

\* the PUT does not reach the backend: fetch rejects, the catch block runs
PageSendFails ==
    /\ page.pc = "sending"
    /\ page' = [page EXCEPT !.pc = "refetch", !.error = TRUE]
    /\ ev' = Background("fetch", props_id, "", 0, TRUE)
    /\ UNCHANGED <<store, tasks, now, calls>>

\* the PUT reaches the backend with item_ids = newOrder
PageSend ==
    /\ page.pc = "sending"
    /\ ReorderBegin(PageClient, props_id, page.sent)
    /\ page' = [page EXCEPT !.pc = "waiting"]

\* faulty variant: the status of the response is not looked at
PageResponseAnyStatus(lost) ==
    /\ page.pc = "waiting"
    /\ calls[PageClient].status # 0
    /\ page' = IF lost
               THEN [page EXCEPT !.pc = "refetch", !.error = TRUE]
               ELSE [page EXCEPT !.pc = "idle"]
    /\ calls' = [calls EXCEPT ![PageClient] = Idle]
    /\ ev' = Background("reorderItems", props_id, "", 0, lost)
    /\ UNCHANGED <<store, tasks, now>>

\* reorderItems after the await of its fetch: the response arrives, or is
\* lost on the way and fetch rejects; anything but a response with a success
\* status ends in the catch block
PageResponse(lost) ==
    /\ page.pc = "waiting"
    /\ calls[PageClient].status # 0
    /\ page' = IF lost \/ calls[PageClient].status # 200
               THEN [page EXCEPT !.pc = "refetch", !.error = TRUE]
               ELSE [page EXCEPT !.pc = "idle"]
    /\ calls' = [calls EXCEPT ![PageClient] = Idle]
    /\ ev' = Background("reorderItems", props_id, "", 0, lost \/ calls[PageClient].status # 200)
    /\ UNCHANGED <<store, tasks, now>>

\* fetchItems in the catch block of reorderItems: with an ok response
\* items.value becomes what GetItems returned, otherwise it stays
PageRefetch(ok) ==
    /\ page.pc = "refetch"
    /\ IF ok
       THEN /\ GetItems(props_id)
            /\ page' = [page EXCEPT !.items = ev'.body, !.pc = "idle"]
       ELSE /\ page' = [page EXCEPT !.pc = "idle"]
            /\ ev' = Background("fetchItems", props_id, "", 0, TRUE)
            /\ UNCHANGED <<store, tasks, now>>
    /\ UNCHANGED calls

-----------------------------------------------------------------------------
(* SpecPage: drag-and-drops on the page of list L1, one after the other, whose
   requests and responses can be lost and whose statements can fail, while
   another client reorders the list. *)

InitPage ==
    /\ lists = StoredLists
    /\ items = StoredInOrder
    /\ nextId = 5
    /\ historyTable = TRUE
    /\ hist = <<>>
    /\ tasks = EmptyBag
    /\ now = 0
    /\ ev = Response("init", "", "", 0, NoBody)
    /\ added = [k \in Keys |-> 0]
    /\ sinceReset = [k \in Keys |-> 0]
    /\ dismissedFor = {}
    /\ calls = [c \in Clients |-> Idle]
    /\ req = NoRequest
    /\ NoTraffic
    /\ page = [items |-> OrderBySortOrder(ItemsOf(StoredInOrder, props_id)),
               pc |-> "idle", sent |-> <<>>, error |-> FALSE]

PgDrag ==
    \E oldIndex, newIndex \in 0..(MaxIds - 1) :
        /\ oldIndex # newIndex
        /\ PageDrag(oldIndex, newIndex)
        /\ UNCHANGED <<ghost, req, limiter>>

PgSendFails == PageSendFails /\ UNCHANGED <<ghost, req, limiter>>

PgSend ==
    /\ PageSend
    /\ req' = Request(PageClient, "ReorderItems", props_id, 0, page.sent)
    /\ UNCHANGED <<ghost, limiter>>

PgStep ==
    \E dbErr \in BOOLEAN :
        /\ ReorderStep(PageClient, dbErr)
        /\ req' = Request(PageClient, "ReorderItems", props_id, 0, page.sent)
        /\ UNCHANGED <<ghost, limiter, page>>

PgResponse ==
    \E lost \in BOOLEAN :
        /\ PageResponse(lost)
        /\ UNCHANGED <<ghost, req, limiter>>

PgRefetch ==
    \E ok \in BOOLEAN :
        /\ PageRefetch(ok)
        /\ UNCHANGED <<ghost, req, limiter>>

PgOther ==
    /\ ReorderItems(props_id, <<3, 2, 1>>)
    /\ req' = Request(2, "ReorderItems", props_id, 0, <<3, 2, 1>>)
    /\ UNCHANGED <<ghost, calls, limiter, page>>

NextPage ==
    \/ PgDrag
    \/ PgSendFails
    \/ PgSend
    \/ PgStep
    \/ PgResponse
    \/ PgRefetch
    \/ PgOther

SpecPage == InitPage /\ [][NextPage]_vars

-----------------------------------------------------------------------------
(* SpecIsolation: requests to two lists that use the same item name.  The
   store is new, or it is the store after "milk" was added to each list on
   day -8 and on day -4 and the first item of each list was deleted. *)

IsoItems == {NewItem(3, "L1", "milk", FALSE, 2), NewItem(4, "L2", "milk", FALSE, 2)}

IsoRow(l) == TrackedRow(NewRow(l, "milk", -8), -4)

IsoHistory == <<IsoRow("L1"), IsoRow("L2")>>

\* the ids of the requests: an item of each list
IsoIds == {it.id : it \in IsoItems}

IsoListInput == [name |-> Some("Home"), emoji |-> Absent, hex_color |-> Absent]

IsoItemInput == [checked |-> Some(TRUE), name |-> Absent, sort_order |-> Absent]

InitIsolation ==
    /\ lists = StoredLists
    /\ \/ items = {} /\ nextId = 1 /\ hist = <<>> /\ tasks = EmptyBag
       \/ items = IsoItems /\ nextId = 5 /\ hist = IsoHistory /\ tasks = EmptyBag
    /\ historyTable = TRUE
    /\ now = 0
    /\ ev = Response("init", "", "", 0, NoBody)
    /\ added = [k \in Keys |-> 0]
    /\ sinceReset = [k \in Keys |-> 0]
    /\ dismissedFor = {}
    /\ calls = [c \in Clients |-> Idle]
    /\ req = NoRequest
    /\ NoTraffic
    /\ page = NoPage

IsoCreateItem ==
    \E l \in ListIds : CreateItem(l, "milk", FALSE) /\ UNCHANGED <<ghost, requests, limiter, page>>

IsoUpdateItem ==
    \E l \in ListIds, id \in IsoIds :
        UpdateItem(l, id, IsoItemInput) /\ UNCHANGED <<ghost, requests, limiter, page>>

IsoDeleteItem ==
    \E l \in ListIds, id \in IsoIds :
        DeleteItem(l, id) /\ UNCHANGED <<ghost, requests, limiter, page>>

IsoReorderItems ==
    \E l \in ListIds :
        ReorderItems(l, <<4, 3>>) /\ UNCHANGED <<ghost, requests, limiter, page>>

IsoDismiss ==
    \E l \in ListIds :
        DismissRecommendation(l, "milk") /\ UNCHANGED <<ghost, requests, limiter, page>>

IsoUpdateListFetch ==
    \E l \in ListIds :
        UpdateListFetch(1, l, IsoListInput) /\ UNCHANGED <<ghost, req, limiter, page>>

IsoUpdateListWrite == UpdateListWrite(1) /\ UNCHANGED <<ghost, req, limiter, page>>

IsoDeleteList ==
    \E l \in ListIds : DeleteList(l) /\ UNCHANGED <<ghost, requests, limiter, page>>

IsoGetItems ==
    \E l \in ListIds : GetItems(l) /\ UNCHANGED <<ghost, requests, limiter, page>>

IsoGetRecommendations ==
    \E l \in ListIds, tb \in TieBreaks :
        GetRecommendations(l, FALSE, tb) /\ UNCHANGED <<ghost, requests, limiter, page>>

NextIsolation ==
    \/ IsoCreateItem
    \/ DoTrackUpdate
    \/ DoTrackInsert
    \/ IsoUpdateItem
    \/ IsoDeleteItem
    \/ IsoReorderItems
    \/ IsoDismiss
    \/ IsoUpdateListFetch
    \/ IsoUpdateListWrite
    \/ IsoDeleteList
    \/ IsoGetItems
    \/ IsoGetRecommendations

SpecIsolation == InitIsolation /\ [][NextIsolation]_vars

-----------------------------------------------------------------------------
(* SpecApi: the writing handlers of lists and of items with requests that
   pass their validation and requests that do not.  The two tables are
   written by different handlers; a behaviour writes the lists or the items,
   not both.  The store holds list L1, or lists L1 and L2, and no item; the
   TrackItemAddition goroutines that CreateItem starts have not run yet. *)

InitialLists == {[l \in {Target} |-> StoredLists[l]], StoredLists}

ItemsUntouched == items = {} /\ nextId = 1 /\ tasks = EmptyBag

ListsUntouched == lists \in InitialLists /\ \A c \in Clients : calls[c].op = "idle"

CreateItemInputs ==
    { [name |-> "milk", is_separator |-> FALSE],
      [name |-> "", is_separator |-> TRUE],
      [name |-> "", is_separator |-> FALSE],
      [name |-> TooLong, is_separator |-> FALSE],
      [name |-> TooLong, is_separator |-> TRUE],
      [name |-> MultiByte, is_separator |-> FALSE] }

ApiUpdateInputs ==
    { [checked |-> Absent, name |-> Absent, sort_order |-> Absent],
      [checked |-> Absent, name |-> Some(""), sort_order |-> Absent],
      [checked |-> Absent, name |-> Some(TooLong), sort_order |-> Absent],
      [checked |-> Some(TRUE), name |-> Absent, sort_order |-> Some(5)] }

ApiReorderInputs == {<<>>, <<2, 1>>}

InitApi ==
    /\ lists \in InitialLists
    /\ items = {}
    /\ nextId = 1
    /\ historyTable = TRUE
    /\ hist = <<>>
    /\ tasks = EmptyBag
    /\ now = 0
    /\ ev = Response("init", "", "", 0, NoBody)
    /\ added = [k \in Keys |-> 0]
    /\ sinceReset = [k \in Keys |-> 0]
    /\ dismissedFor = {}
    /\ calls = [c \in Clients |-> Idle]
    /\ req = NoRequest
    /\ NoTraffic
    /\ page = NoPage

ApiCreateList == ItemsUntouched /\ LstCreateList

ApiUpdateListFetch == ItemsUntouched /\ LstUpdateListFetch

ApiUpdateListWrite == ItemsUntouched /\ LstUpdateListWrite

ApiCreateItem ==
    \E l \in ListIds, in \in CreateItemInputs :
        /\ ListsUntouched
        /\ CreateItem(l, in.name, in.is_separator)
        /\ req' = Request(0, "CreateItem", l, 0, in)
        /\ UNCHANGED <<limiter, page>>
        /\ UNCHANGED <<ghost, calls>>

ApiUpdateItem ==
    \E l \in ListIds, id \in ItemIds, in \in ApiUpdateInputs :
        /\ ListsUntouched
        /\ UpdateItem(l, id, in)
        /\ req' = Request(0, "UpdateItem", l, id, in)
        /\ UNCHANGED <<limiter, page>>
        /\ UNCHANGED <<ghost, calls>>

ApiDeleteItem ==
    \E l \in ListIds, id \in ItemIds :
        /\ ListsUntouched
        /\ DeleteItem(l, id)
        /\ req' = Request(0, "DeleteItem", l, id, <<>>)
        /\ UNCHANGED <<limiter, page>>
        /\ UNCHANGED <<ghost, calls>>

ApiReorderItems ==
    \E l \in {Target}, ids \in ApiReorderInputs :
        /\ ListsUntouched
        /\ ReorderItems(l, ids)
        /\ req' = Request(0, "ReorderItems", l, 0, ids)
        /\ UNCHANGED <<limiter, page>>
        /\ UNCHANGED <<ghost, calls>>

NextApi ==
    \/ ApiCreateList
    \/ ApiUpdateListFetch
    \/ ApiUpdateListWrite
    \/ ApiCreateItem
    \/ ApiUpdateItem
    \/ ApiDeleteItem
    \/ ApiReorderItems

SpecApi == InitApi /\ [][NextApi]_vars

-----------------------------------------------------------------------------
(* Properties *)

Count(l, n) == RowOf(hist, l, n).added_count

Counts(h) == [i \in 1..Len(h) |-> h[i].added_count]

FrameOps == {"DeleteItem", "UpdateItem", "ReorderItems", "DismissRecommendation"}

\* C1 as stated: with additions tracked one at a time, added_count of a history
\* row is the number of additions of its name since the row was created or
\* since the last re-add of the name after a dismissal.
C1_CountSinceReset ==
    \A l \in ListIds, n \in ItemNames :
        HasRow(hist, l, n) /\ Pending(l, n) = 0 => Count(l, n) = sinceReset[<<l, n>>]

\* C1, amended: with additions tracked one at a time, added_count of a history
\* row plus the additions of its name still being tracked is the number of
\* additions of that name since the row was created (a dismissal followed by a
\* re-add does not restart the count), and DeleteItem, UpdateItem, ReorderItems
\* and DismissRecommendation leave every added_count as it is.
C1_AddedCount ==
    /\ [](\A l \in ListIds, n \in ItemNames :
            HasRow(hist, l, n) => Count(l, n) + Pending(l, n) = added[<<l, n>>])
    /\ [][ev'.op \in FrameOps => Counts(hist') = Counts(hist)]_vars

\* a name added, dismissed and added again, both additions tracked
C1_Witness ==
    \E n \in ItemNames :
        /\ HasRow(hist, Target, n)
        /\ Pending(Target, n) = 0
        /\ Count(Target, n) = 2
        /\ sinceReset[<<Target, n>>] = 1

\* C2: once every tracking of the additions of a name has completed,
\* added_count is the number of those additions, also when they were tracked
\* concurrently and no history row existed yet.
C2_NoLostIncrement ==
    \A n \in ItemNames :
        historyTable /\ added[<<Target, n>>] > 0 /\ Pending(Target, n) = 0
            => HasRow(hist, Target, n) /\ Count(Target, n) = added[<<Target, n>>]

\* C3: there is at most one history row per (list_id, item_name), and an
\* insert that finds the row of its key already there changes nothing and
\* reports no error.
C3_UniqueKey ==
    /\ [](\A l \in ListIds, n \in ItemNames : Cardinality(RowsOf(hist, l, n)) <= 1)
    /\ [][ev'.op = "TrackInsert" /\ historyTable /\ HasRow(hist, ev'.list, ev'.name)
            => hist' = hist /\ ev'.rows = 0 /\ ~ev'.err]_vars

\* two first additions of a name raced, and the second insert found the row
C3_Witness ==
    /\ ev.op = "TrackInsert"
    /\ ev.rows = 0
    /\ historyTable
    /\ HasRow(hist, ev.list, ev.name)
    /\ Count(ev.list, ev.name) = 1
    /\ added[<<ev.list, ev.name>>] = 2

\* C4: the tracking of an addition that finds no history row of (list, name)
\* leaves a new row of (list, name) with added_count = 1, avg_days_between = 7,
\* dismissed = false and last_added_at = the time of the tracking.
C4_FirstAddition ==
    [][ev'.op = "TrackInsert" /\ historyTable /\ ~HasRow(hist, ev'.list, ev'.name)
        => /\ ev'.rows = 1
           /\ Len(hist') = Len(hist) + 1
           /\ hist'[Len(hist')] =
                [list_id |-> ev'.list, item_name |-> ev'.name, added_count |-> 1,
                 last_added_at |-> now, avg_days_between |-> <<7, 1>>,
                 dismissed |-> FALSE]]_vars

\* a first addition tracked on day 1 or later
C4_Witness ==
    /\ ev.op = "TrackInsert"
    /\ ev.rows = 1
    /\ now > 0
    /\ RowOf(hist, ev.list, ev.name).last_added_at = now

Names(body) == {body[i].name : i \in 1..Len(body)}

\* C6: after DismissRecommendation(list, name) no GetRecommendations(list)
\* returns the name until the name is added to the list as an item again.
C6_DismissedStaysOut ==
    ev.op = "GetRecommendations"
        => \A n \in ItemNames : <<ev.list, n>> \in dismissedFor => n \notin Names(ev.body)

\* C7: DismissRecommendation(list, name) changes the dismissed flag of the
\* (list, name) history row and nothing else in lists, items or item_history;
\* with no such row it changes nothing and answers 200.
C7_DismissFrame ==
    [][ev'.op = "DismissRecommendation"
        => /\ lists' = lists /\ items' = items /\ nextId' = nextId
           /\ Len(hist') = Len(hist)
           /\ \A i \in 1..Len(hist) :
                hist'[i] = IF hist[i].list_id = ev'.list /\ hist[i].item_name = ev'.name
                           THEN [hist[i] EXCEPT !.dismissed = TRUE]
                           ELSE hist[i]
           /\ historyTable => ev'.status = 200
           /\ ~HasRow(hist, ev'.list, ev'.name) => hist' = hist]_vars

\* a dismissal with the row of another name in the table, and one of a name
\* that has no row
C7_Witness ==
    /\ ev.op = "DismissRecommendation"
    /\ ev.status = 200
    /\ ~HasRow(hist, ev.list, ev.name)
    /\ \E i \in 1..Len(hist) : hist[i].list_id = ev.list /\ ~hist[i].dismissed

\* C10: a GetRecommendations whose history query fails answers 200 with an
\* empty sequence; the call changes no table, and on a store without the
\* history table items are still created and deleted.
C10_RecommendationsDegrade ==
    /\ [](ev.op = "GetRecommendations" /\ ev.err => ev.status = 200 /\ ev.body = <<>>)
    /\ [][ev'.op = "GetRecommendations" => UNCHANGED <<store, tasks>>]_vars
    /\ [][~historyTable /\ ev'.op = "CreateItem"
            => ev'.status = 201 /\ items' = items \cup {ev'.body[1]}]_vars
    /\ [][~historyTable /\ ev'.op = "DeleteItem" /\ (\E it \in items : it.id \notin {x.id : x \in items'})
            => ev'.status = 204]_vars

\* the query failed on a store without the history table that holds items
C10_Witness ==
    /\ ev.op = "GetRecommendations"
    /\ ev.err
    /\ ~historyTable
    /\ items # {}

Answered == ev.op = "GetRecommendations" /\ ~ev.err

\* C5: every name GetRecommendations(list) returns is the item_name of a
\* history row of that list with dismissed = false and added_count >= 2, and
\* is the name of no item of that list.
C5_OnlySelectedNames ==
    Answered =>
        \A k \in 1..Len(ev.body) :
            /\ \E i \in 1..Len(hist) :
                /\ hist[i].list_id = ev.list
                /\ hist[i].item_name = ev.body[k].name
                /\ hist[i].dismissed = FALSE
                /\ hist[i].added_count >= 2
            /\ ~\E it \in items : it.list_id = ev.list /\ it.name = ev.body[k].name

\* "milk" is recommended for L1 while "Milk" is an item of L1, and rows of L1
\* that are dismissed, added once or named as an item are left out
C5_Witness ==
    /\ Answered
    /\ ev.list = "L1"
    /\ items = StoredItems
    /\ "milk" \in Names(ev.body)
    /\ "Milk" \notin Names(ev.body)
    /\ \E i, j \in 1..Len(hist) :
        /\ hist[i].list_id = "L1" /\ hist[j].list_id = "L1"
        /\ hist[i].item_name \notin Names(ev.body)
        /\ hist[j].item_name \notin Names(ev.body)
        /\ hist[i].dismissed /\ hist[i].added_count >= 2
        /\ ~hist[j].dismissed /\ hist[j].added_count < 2
        /\ RatGE(Urgency(hist[i], now), Half)
        /\ RatGE(Urgency(hist[j], now), Half)

\* urgency u = <<p, q>> is days / avg
IsQuotient(u, days, avg) == u[1] * avg[1] = days * avg[2] * u[2]

\* C8: the urgency of a history row is days_since_last_added /
\* avg_days_between when avg_days_between > 0 and 0.5 otherwise; a returned
\* entry carries the urgency of its row, which is at least 0.5 (for
\* avg_days_between > 0: 2 * days_since_last_added >= avg_days_between), and a
\* selected row of smaller urgency is not returned.
C8_Urgency ==
    /\ \A i \in 1..Len(hist) :
        LET r == hist[i]
            u == Urgency(r, now)
        IN  /\ r.avg_days_between[1] > 0
                => u[2] > 0 /\ IsQuotient(u, now - r.last_added_at, r.avg_days_between)
            /\ r.avg_days_between[1] <= 0 => u = <<1, 2>>
    /\ Answered =>
        /\ \A k \in 1..Len(ev.body) :
            LET r == RowOf(hist, ev.list, ev.body[k].name)
                u == ev.body[k].urgency
            IN  /\ r.avg_days_between[1] > 0
                    => /\ IsQuotient(u, now - r.last_added_at, r.avg_days_between)
                       /\ 2 * (now - r.last_added_at) * r.avg_days_between[2]
                             >= r.avg_days_between[1]
                /\ r.avg_days_between[1] <= 0 => u = <<1, 2>>
                /\ 2 * u[1] >= u[2]
        /\ \A i \in 1..Len(hist) :
            (/\ hist[i].list_id = ev.list
             /\ hist[i].avg_days_between[1] > 0
             /\ 2 * (now - hist[i].last_added_at) * hist[i].avg_days_between[2]
                   < hist[i].avg_days_between[1])
                => hist[i].item_name \notin Names(ev.body)

\* on day 1 the answer holds a row of urgency 9/5 and the row with
\* avg_days_between = 0 at urgency 0.5, and leaves out a row of urgency 2/7
C8_Witness ==
    /\ Answered
    /\ now = 1
    /\ \E k \in 1..Len(ev.body) : ev.body[k].urgency = <<9, 5>>
    /\ \E k \in 1..Len(ev.body) :
        /\ ev.body[k].urgency = <<1, 2>>
        /\ RowOf(hist, ev.list, ev.body[k].name).avg_days_between = <<0, 1>>
    /\ \E i \in 1..Len(hist) :
        /\ Selected(hist[i], items, ev.list)
        /\ Urgency(hist[i], now) = <<2, 7>>
        /\ hist[i].item_name \notin Names(ev.body)

\* the rows GetRecommendations(l) is to choose from: selected, urgency >= 0.5
Qualifying(l) ==
    {i \in 1..Len(hist) : Selected(hist[i], items, l) /\ RatGE(Urgency(hist[i], now), Half)}

Min(a, b) == IF a < b THEN a ELSE b

\* C9: GetRecommendations(list) returns min(10, n) of the n qualifying rows of
\* the store as it is at the call, each once, in non-increasing urgency, and
\* no qualifying row left out has a greater urgency than a returned one.
C9_TopTen ==
    Answered =>
        LET Q == Qualifying(ev.list)
            body == ev.body
        IN  /\ Len(body) = Min(10, Cardinality(Q))
            /\ \A k \in 1..Len(body) :
                \E i \in Q : /\ body[k].name = hist[i].item_name
                             /\ body[k].urgency = Urgency(hist[i], now)
            /\ \A k, m \in 1..Len(body) : k # m => body[k].name # body[m].name
            /\ \A k \in 1..(Len(body) - 1) : RatGE(body[k].urgency, body[k + 1].urgency)
            /\ \A i \in Q :
                hist[i].item_name \notin Names(body)
                    => \A k \in 1..Len(body) : RatGE(body[k].urgency, Urgency(hist[i], now))

\* eleven rows qualify, the one stored last has the greatest urgency: it is
\* returned first and a row stored before it is cut
C9_Witness ==
    /\ Answered
    /\ Cardinality(Qualifying(ev.list)) > 10
    /\ Len(ev.body) = 10
    /\ ev.body[1].name = hist[Len(hist)].item_name
    /\ RatGT(ev.body[1].urgency, ev.body[2].urgency)

-----------------------------------------------------------------------------
(* Lists *)

\* C16: every stored list has a non-empty name of at most 15 characters, and
\* CreateList and UpdateList answer 400 to a request whose name is empty or
\* longer than 15 characters.
C16_ListNameRequired ==
    /\ [](\A l \in DOMAIN lists :
            lists[l].name # "" /\ Chars(lists[l].name) <= maxListNameLength)
    /\ [][(/\ req'.op = "CreateList"
            /\ ev'.op = "CreateList"
            /\ (req'.in.name = "" \/ Chars(req'.in.name) > maxListNameLength))
              => ev'.status = 400]_vars
    /\ [][(/\ req'.op = "UpdateList"
            /\ ev'.op \in {"UpdateList", "UpdateListFetch"}
            /\ req'.in.name # Absent
            /\ (req'.in.name[1] = "" \/ Chars(req'.in.name[1]) > maxListNameLength))
              => ev'.status = 400]_vars

\* client d has just been answered 200 by an UpdateList that set no name, and
\* client c was answered 200 by an UpdateList of the same list that had fetched
\* the same row and set a name other than the one fetched
NameOverwritten(c, d) ==
    /\ c # d
    /\ ev.op = "UpdateList" /\ ev.status = 200 /\ req.client = d
    /\ calls[c].op = "UpdateList" /\ calls[c].status = 200
    /\ calls[d].op = "UpdateList" /\ calls[d].status = 200
    /\ calls[c].list = calls[d].list
    /\ calls[c].row = calls[d].row
    /\ calls[c].in.name # Absent
    /\ calls[c].in.name[1] # calls[c].row[1].name
    /\ calls[d].in.name = Absent

\* C19: when the writes of two UpdateList calls that fetched the same row of a
\* list both succeed, one setting a name and the other, which writes last,
\* setting none, the stored name is the one fetched: the change of the first is
\* lost although both were answered 200.
C19_LostUpdate ==
    \A c, d \in Clients :
        NameOverwritten(c, d) => lists[calls[d].list].name = calls[d].row[1].name

\* one call set only the name, the other only the colour; the list has the new
\* colour and the old name
C19_Witness ==
    \E c, d \in Clients :
        /\ NameOverwritten(c, d)
        /\ calls[c].in = [name |-> Some("Home"), emoji |-> Absent, hex_color |-> Absent]
        /\ calls[d].in = [name |-> Absent, emoji |-> Absent, hex_color |-> Some("ff0000")]
        /\ lists[Target].name = "Shopping"
        /\ lists[Target].hex_color = "ff0000"

-----------------------------------------------------------------------------
(* Order of the items *)

ItemWithId(its, id) == CHOOSE it \in its : it.id = id

IdsOfList(its, l) == {it.id : it \in ItemsOf(its, l)}

Position(ids, id) == CHOOSE i \in DOMAIN ids : ids[i] = id

\* the last step was the response, of the given status, to the ReorderItems
\* call of client c
ReorderAnswered(c, status) ==
    /\ req.client = c /\ req.in = calls[c].in
    /\ ev.op = "ReorderItems" /\ ev.status = status
    /\ calls[c].op = "ReorderItems" /\ calls[c].status = status

\* C11: when ReorderItems(list, ids) with ids a permutation of the ids of all
\* items of the list has run without a store failure, the item at position i
\* of ids has sort_order i and GetItems(list) returns the items in the order
\* of ids.
C11_ReorderPermutation ==
    /\ \A c \in Clients :
          LET l == calls[c].list
              ids == calls[c].in
          IN  (/\ ReorderAnswered(c, 200)
               /\ {ids[i] : i \in DOMAIN ids} = IdsOfList(items, l)
               /\ Len(ids) = Cardinality(IdsOfList(items, l)))
                => /\ \A i \in DOMAIN ids : ItemWithId(items, ids[i]).sort_order = i
                   /\ IdsOf(OrderBySortOrder(ItemsOf(items, l))) = ids
    /\ ev.op = "GetItems" => ev.body = OrderBySortOrder(ItemsOf(items, ev.list))

\* items 1, 2, 3 were reordered to 3, 1, 2
C11_Witness ==
    /\ ReorderAnswered(1, 200)
    /\ calls[1].in = <<3, 1, 2>>
    /\ ItemWithId(items, 3).sort_order < ItemWithId(items, 1).sort_order
    /\ ItemWithId(items, 1).sort_order < ItemWithId(items, 2).sort_order
    /\ IdsOf(OrderBySortOrder(ItemsOf(items, Target))) = <<3, 1, 2>>

\* C12: when ReorderItems(list, ids) with an id in ids that is no item of the
\* list has run all its statements, the call answers 200, no item of another
\* list has changed, no row was created, and every id of ids that is an item of
\* the list has its position in ids as sort_order.
C12_ReorderForeignIds ==
    \A c \in Clients :
        LET l == calls[c].list
            ids == calls[c].in
            before == calls[c].row[1]
        IN  (/\ ReorderAnswered(c, 200) \/ ReorderAnswered(c, 500)
             /\ calls[c].k = Len(ids)
             /\ \E i \in DOMAIN ids : ids[i] \notin IdsOfList(before, l))
              => /\ ev.status = 200
                 /\ \A it \in before : it.list_id # l => it \in items
                 /\ Cardinality(items) = Cardinality(before)
                 /\ \A i \in DOMAIN ids :
                       ids[i] \in IdsOfList(before, l)
                         => ItemWithId(items, ids[i]) =
                              [ItemWithId(before, ids[i]) EXCEPT !.sort_order = i]

\* ids names item 4 of list L2, item 2 of the list and an id no item has
C12_Witness ==
    /\ ReorderAnswered(1, 200)
    /\ calls[1].in = <<4, 2, MissingItem>>
    /\ ItemWithId(items, 4).sort_order = 1
    /\ ItemWithId(items, 2).sort_order = 2

\* C13: when the store fails on the k-th update of a ReorderItems call, the
\* call answers 500 and issues no further statement; the items named at
\* positions 1..k-1 have their positions as sort_order, and every other item
\* is as it was when the call began.
C13_ReorderFailure ==
    /\ [](\A c \in Clients :
            LET l == calls[c].list
                ids == calls[c].in
                before == calls[c].row[1]
                done == {ids[i] : i \in 1..calls[c].k}
            IN  ReorderAnswered(c, 500)
                  => /\ calls[c].k < Len(ids)
                     /\ Cardinality(items) = Cardinality(before)
                     /\ \A it \in before :
                           IF it.list_id = l /\ it.id \in done
                           THEN [it EXCEPT !.sort_order = Position(ids, it.id)] \in items
                           ELSE it \in items)
    /\ [][\A c \in Clients :
            calls[c].op = "ReorderItems" /\ calls[c].status = 500
              => calls'[c] = calls[c] \/ (calls'[c].k = 0 /\ calls'[c].status = 0)]_vars

\* the second of three updates failed: item 3 is first, items 1 and 2 are
\* where they were
C13_Witness ==
    /\ ReorderAnswered(1, 500)
    /\ calls[1].in = <<3, 1, 2>>
    /\ calls[1].k = 1
    /\ ItemWithId(items, 3).sort_order = 1
    /\ ItemWithId(items, 1).sort_order = 1
    /\ ItemWithId(items, 2).sort_order = 2

-----------------------------------------------------------------------------
(* Items *)

\* C17: every stored item that is not a separator has a non-empty name, and
\* every stored item name has at most 100 characters.
C17_ItemNameRequired ==
    \A it \in items :
        /\ ~it.is_separator => it.name # ""
        /\ Chars(it.name) <= maxItemNameLength

\* the request just answered names, by its id, an item of another list
NamesForeignItem == \E it \in items : it.id = req'.id /\ it.list_id # req'.list

\* the body of an UpdateItem request passes the handler's validation
ValidUpdate(in) ==
    /\ ~(in.name # Absent /\ NameLen(in.name[1]) > maxItemNameLength)
    /\ ~(in.checked = Absent /\ in.name = Absent /\ in.sort_order = Absent)

\* C14: UpdateItem(list, id, ...) and DeleteItem(list, id) with the id of an
\* item of another list leave every item as it is and answer 404 (UpdateItem
\* answers 400 when the body does not pass validation, which comes first).
C14_CrossListNotFound ==
    /\ [][req'.op = "DeleteItem" /\ ev'.op = "DeleteItem" /\ NamesForeignItem
            => ev'.status = 404 /\ items' = items]_vars
    /\ [][req'.op = "UpdateItem" /\ ev'.op = "UpdateItem" /\ NamesForeignItem
            => /\ items' = items
               /\ ev'.status = IF ValidUpdate(req'.in) THEN 404 ELSE 400]_vars

\* an UpdateItem that sets fields was answered 404 for the id of an item of
\* another list, with an item in the list of the request as well
C14_Witness ==
    /\ req.op = "UpdateItem"
    /\ ev.op = "UpdateItem"
    /\ ev.status = 404
    /\ req.in.checked = Some(TRUE)
    /\ \E it \in items : it.id = req.id /\ it.list_id # req.list /\ ~it.checked
    /\ \E it \in items : it.list_id = req.list

\* what UpdateItem and DeleteItem answer to request r when the list of r has
\* no item with the id of r: a value of the request alone
NotFoundResponse(r) ==
    Response(r.op, r.list, "",
             IF r.op = "UpdateItem" /\ ~ValidUpdate(r.in) THEN 400 ELSE 404, NoBody)

\* C15: the response of UpdateItem and DeleteItem to a request whose list has
\* no item with the id is the same whether an item of another list has the id
\* or no item has it: status and body depend on the request only.
C15_SameResponse ==
    [][(/\ req'.op \in {"UpdateItem", "DeleteItem"}
        /\ ev'.op = req'.op
        /\ ~\E it \in items : it.id = req'.id /\ it.list_id = req'.list)
          => ev' = NotFoundResponse(req')]_vars

\* DeleteItem was answered for an id that an item of another list has, while
\* another id is not in the store at all
C15_Witness ==
    /\ req.op = "DeleteItem"
    /\ ev.op = "DeleteItem"
    /\ ev = NotFoundResponse(req)
    /\ \E it \in items : it.id = req.id /\ it.list_id # req.list
    /\ \E id \in ItemIds : ~\E it \in items : it.id = id

-----------------------------------------------------------------------------
(* Partial updates *)

\* item after is item before with at most the fields of request body in changed
ItemFrame(before, after, in) ==
    /\ after.id = before.id
    /\ after.list_id = before.list_id
    /\ after.is_separator = before.is_separator
    /\ after.created_at = before.created_at
    /\ in.checked = Absent => after.checked = before.checked
    /\ in.name = Absent => after.name = before.name
    /\ in.sort_order = Absent => after.sort_order = before.sort_order

\* list row after is row before with at most the fields of request body in changed
ListFrame(before, after, in) ==
    /\ after.id = before.id
    /\ after.created_at = before.created_at
    /\ in.name = Absent => after.name = before.name
    /\ in.emoji = Absent => after.emoji = before.emoji
    /\ in.hex_color = Absent => after.hex_color = before.hex_color

\* the UpdateList call of client c sends its 200 in this step
UpdateListDone(c) ==
    /\ Running(c, "UpdateList")
    /\ calls'[c].status = 200
    /\ ev'.op = "UpdateList"

\* C18: an UpdateItem leaves every item in the store, the item it names with
\* the fields absent from the request as they were and every other item as it
\* was; an UpdateList answered 200 leaves the list it names with the fields
\* absent from the request as they were stored when the call fetched the row,
\* and every other list as it was; id, list_id, is_separator and created_at of
\* an item and id and created_at of a list change in no step.
C18_PartialUpdate ==
    /\ [][req'.op = "UpdateItem" /\ ev'.op = "UpdateItem"
            => /\ {it.id : it \in items'} = {it.id : it \in items}
               /\ \A before \in items, after \in items' :
                    after.id = before.id
                        => IF before.id = req'.id /\ before.list_id = req'.list
                           THEN ItemFrame(before, after, req'.in)
                           ELSE after = before]_vars
    /\ [][\A c \in Clients :
            Free(c) /\ Running(c, "UpdateList")'
                => calls'[c].row = <<lists[calls'[c].list]>> /\ lists' = lists]_vars
    /\ [][\A c \in Clients :
            UpdateListDone(c)
                => /\ DOMAIN lists' = DOMAIN lists
                   /\ ListFrame(calls[c].row[1], lists'[calls[c].list], calls[c].in)
                   /\ \A l \in DOMAIN lists \ {calls[c].list} : lists'[l] = lists[l]]_vars
    /\ [][\A before \in items, after \in items' :
            after.id = before.id
                => /\ after.list_id = before.list_id
                   /\ after.is_separator = before.is_separator
                   /\ after.created_at = before.created_at]_vars
    /\ [][\A l \in DOMAIN lists \cap DOMAIN lists' :
            lists'[l].id = lists[l].id /\ lists'[l].created_at = lists[l].created_at]_vars

\* an UpdateList that set only the name was answered 200 and the list has the
\* new name with the emoji and the colour it had
C18_Witness ==
    /\ ev.op = "UpdateList"
    /\ ev.status = 200
    /\ calls[req.client].in = [name |-> Some("Home"), emoji |-> Absent, hex_color |-> Absent]
    /\ lists[Target].name = "Home"
    /\ lists[Target].emoji = Some("cart")
    /\ lists[Target].hex_color = DefaultHexColor

-----------------------------------------------------------------------------
(* Validation *)

\* request r is one that validation rejects: CreateList with an empty or
\* over-long name or an over-long colour, UpdateList with an over-long name or
\* colour, CreateItem with no name for an item that is no separator or with an
\* over-long name, UpdateItem with an over-long name or no field, ReorderItems
\* with no item_ids
Invalid(r) ==
    CASE r.op = "CreateList" ->
            \/ r.in.name = ""
            \/ Chars(r.in.name) > maxListNameLength
            \/ Chars(r.in.hex_color) > maxHexColorLength
      [] r.op = "UpdateList" ->
            \/ r.in.name # Absent /\ Chars(r.in.name[1]) > maxListNameLength
            \/ r.in.hex_color # Absent /\ Chars(r.in.hex_color[1]) > maxHexColorLength
      [] r.op = "CreateItem" ->
            \/ r.in.name = "" /\ ~r.in.is_separator
            \/ Chars(r.in.name) > maxItemNameLength
      [] r.op = "UpdateItem" ->
            \/ r.in.name # Absent /\ Chars(r.in.name[1]) > maxItemNameLength
            \/ r.in.checked = Absent /\ r.in.name = Absent /\ r.in.sort_order = Absent
      [] r.op = "ReorderItems" -> r.in = <<>>
      [] OTHER -> FALSE

\* C20: a request that validation rejects is answered 400 in a step that
\* leaves lists, items and history as they are, starts no tracking and, for
\* UpdateList, fetches no row; and every step that answers 400 leaves them so.
C20_ValidationFirst ==
    /\ [][Invalid(req') => ev'.status = 400]_vars
    /\ [][ev'.status = 400
            => UNCHANGED <<lists, items, nextId, historyTable, hist, tasks, calls>>]_vars

\* CreateItem was answered 400 for an over-long name on a store that holds an
\* item whose tracking has been started
C20_Witness ==
    /\ req.op = "CreateItem"
    /\ req.in.name = TooLong
    /\ ev.op = "CreateItem"
    /\ ev.status = 400
    /\ items # {}
    /\ tasks # EmptyBag

-----------------------------------------------------------------------------
(* Dismissals and pending trackings *)

\* C30: the history row of a name dismissed by DismissRecommendation stays
\* dismissed in every step that is not a CreateItem of that name issued after
\* the dismissal; a TrackItemAddition still pending from an earlier addition
\* does not reset the flag.
C30_DismissedUntilReadded ==
    [][\A l \in ListIds, n \in ItemNames :
        (/\ <<l, n>> \in dismissedFor
         /\ <<l, n>> \in dismissedFor'
         /\ HasRow(hist, l, n)
         /\ RowOf(hist, l, n).dismissed)
            => HasRow(hist', l, n) /\ RowOf(hist', l, n).dismissed]_vars

-----------------------------------------------------------------------------
(* Separators *)

\* C26: when every item created is a separator, no history row is created or
\* updated, and GetRecommendations returns no name.
C26_SeparatorsUntracked ==
    /\ hist = <<>>
    /\ Answered => ev.body = <<>>

-----------------------------------------------------------------------------
(* Deletion of a list *)

\* C21: every item and every history row refers to a list that exists, and a
\* DeleteList answered 204 leaves the list, its items and its history rows
\* gone, also when the insert of a CreateItem or a TrackItemAddition for the
\* list runs after the deletion.
C21_DeleteListCascades ==
    /\ [](\A it \in items : it.list_id \in DOMAIN lists)
    /\ [](\A i \in 1..Len(hist) : hist[i].list_id \in DOMAIN lists)
    /\ [][ev'.op = "DeleteList" /\ ev'.status = 204
            => /\ ev'.list \notin DOMAIN lists'
               /\ ItemsOf(items', ev'.list) = {}
               /\ \A i \in 1..Len(hist') : hist'[i].list_id # ev'.list]_vars

\* the INSERT of a TrackItemAddition for a deleted list has just failed on a
\* store with the history table, while a CreateItem call that read the maximum
\* of the deleted list before the deletion was answered 500
C21_Witness ==
    /\ ev.op = "TrackInsert"
    /\ ev.err
    /\ historyTable
    /\ ev.list \notin DOMAIN lists
    /\ \E c \in Clients :
        /\ calls[c].op = "CreateItem"
        /\ calls[c].status = 500
        /\ calls[c].list = ev.list

-----------------------------------------------------------------------------
(* Position of a new item *)

\* C25: when the insert of a CreateItem has completed, the sort_order of the
\* new item is greater than that of every other item of its list, also when
\* CreateItem calls for the list run concurrently.
C25_AppendedLast ==
    ev.op = "CreateItem" /\ ev.status = 201
        => \A it \in ItemsOf(items, ev.list) \ {ev.body[1]} :
                it.sort_order < ev.body[1].sort_order

-----------------------------------------------------------------------------
(* Tracking in the background *)

\* C22: a TrackItemAddition is started only in the step in which a CreateItem
\* stores its item and answers 201 with it; that step leaves the history as it
\* is and the tracking pending; and a step of a TrackItemAddition, failed or
\* not, however late, changes no item, no list and no response that was sent.
C22_FireAndForget ==
    /\ [][BagCardinality(tasks') > BagCardinality(tasks)
            => /\ ev'.op = "CreateItem"
               /\ ev'.status = 201
               /\ ev'.body[1] \in items' \ items
               /\ tasks' = tasks (+) SetToBag({Task(ev'.list, ev'.name, "update")})]_vars
    /\ [][ev'.op = "CreateItem" /\ ev'.status = 201
            => /\ hist' = hist
               /\ ev'.body[1] \in items'
               /\ BagIn(Task(ev'.list, ev'.name, "update"), tasks')]_vars
    /\ [][ev'.op = "CreateItem" /\ ev'.status # 201 => tasks' = tasks]_vars
    /\ [][ev'.op \in {"TrackUpdate", "TrackInsert"}
            => /\ items' = items
               /\ lists' = lists
               /\ calls' = calls
               /\ ev'.status = 0]_vars

\* the INSERT of a TrackItemAddition has failed on a store without the history
\* table; the item it was started for is stored and its CreateItem was
\* answered 201, and another CreateItem was answered 500
C22_Witness ==
    /\ ev.op = "TrackInsert"
    /\ ev.err
    /\ ~historyTable
    /\ \E it \in items : it.list_id = ev.list /\ it.name = ev.name
    /\ \E c, d \in Clients :
        /\ calls[c].op = "CreateItem" /\ calls[c].status = 201 /\ calls[c].list = ev.list
        /\ calls[d].op = "CreateItem" /\ calls[d].status = 500

-----------------------------------------------------------------------------
(* Concurrent reorderings *)

\* the items of ids have their positions in ids as sort_order
InOrder(ids) == \A i \in DOMAIN ids : ItemWithId(items, ids[i]).sort_order = i

\* C29: when the ReorderItems calls of two clients for the same list, each
\* with a permutation of the ids of the list, have both answered 200, the
\* sort_order values are those of one of the two requests and no two items of
\* the list have the same sort_order.
C29_OneOfTwoOrders ==
    \A c, d \in Clients :
        (/\ c # d
         /\ calls[c].op = "ReorderItems" /\ calls[c].status = 200
         /\ calls[d].op = "ReorderItems" /\ calls[d].status = 200
         /\ calls[c].list = calls[d].list)
            => /\ InOrder(calls[c].in) \/ InOrder(calls[d].in)
               /\ \A a, b \in ItemsOf(items, calls[c].list) :
                    a.sort_order = b.sort_order => a = b

-----------------------------------------------------------------------------
(* The running average *)

\* avg_days_between * added_count of row r
Product(r) == RatMulInt(r.avg_days_between, r.added_count)

\* the first of the additions that row r counts was made on a day from
\* EarliestDay on
EarliestDay == -16

\* C23: the UPDATE of a tracked addition on a row with count c > 0, average a
\* and last_added_at d days ago leaves the row with avg_days_between =
\* (a*c + d)/(c+1), added_count = c+1 and last_added_at = now; a new row has
\* avg_days_between * added_count = 7 and every tracked addition adds its d to
\* that product, which so is 7 + the days from the first addition of the row
\* to its last.
C23_RunningAverage ==
    /\ [][ev'.op = "TrackUpdate" /\ ev'.rows = 1
            => \A i \in RowsOf(hist, ev'.list, ev'.name) :
                LET c == hist[i].added_count
                    a == hist[i].avg_days_between
                    d == now - hist[i].last_added_at
                    new == hist'[i]
                IN  c > 0 =>
                    /\ new.added_count = c + 1
                    /\ new.last_added_at = now
                    /\ new.avg_days_between[1] * a[2] * (c + 1)
                            = (a[1] * c + d * a[2]) * new.avg_days_between[2]
                    /\ Product(new) = RatAdd(Product(hist[i]), <<d, 1>>)]_vars
    /\ [][ev'.op = "TrackInsert" /\ ev'.rows = 1
            => Product(hist'[Len(hist')]) = <<7, 1>>]_vars
    /\ [](\A i \in 1..Len(hist) :
            /\ hist[i].added_count > 0
            /\ \E first \in EarliestDay..hist[i].last_added_at :
                Product(hist[i]) = <<7 + hist[i].last_added_at - first, 1>>)

\* the fourth addition of a name added on days -16, -12 and -8 has been
\* tracked on day 1: the average is (5*3 + 9)/4 = 6
C23_Witness ==
    /\ ev.op = "TrackUpdate"
    /\ ev.rows = 1
    /\ now = 1
    /\ RowOf(hist, ev.list, ev.name).added_count = 4
    /\ RowOf(hist, ev.list, ev.name).avg_days_between = <<6, 1>>
    /\ RowOf(hist, ev.list, ev.name).last_added_at = 1

-----------------------------------------------------------------------------
(* Rate limit *)

\* the request of client c is answered 'rate limit exceeded' in this step
Rejected(c) == Running(c, "rateLimitMiddleware") /\ calls'[c] = Idle /\ ev'.status = 429

\* the request of client c is passed on in this step
Passed(c) == Running(c, "rateLimitMiddleware") /\ calls'[c] = Idle /\ ev'.op = "next.ServeHTTP"

\* C24 as stated: of every client key at most 100 requests are passed on
\* within one window.
C24_AtMostRateLimit ==
    \A key \in ClientKeys : forwarded[key].limited + forwarded[key].health <= rateLimit

\* C24, amended: of every client key at most 100 requests to paths other than
\* /health are passed on within one window, also when requests of the key wait
\* for the mutex together; the count of the entry is the number passed on; a
\* rejected request changes no entry; and the first request after resetTime is
\* passed on and opens a window with count 1 that lasts a minute from then.
C24_AtMostRateLimitBarHealth ==
    /\ [](\A key \in ClientKeys :
            /\ forwarded[key].limited <= rateLimit
            /\ rateLimits[key] # NoEntry => rateLimits[key][1].count = forwarded[key].limited)
    /\ [][\A c \in Clients : Rejected(c) => rateLimits' = rateLimits]_vars
    /\ [][\A c \in Clients :
            (/\ Running(c, "rateLimitMiddleware")
             /\ calls'[c] = Idle
             /\ (rateLimits[calls[c].list] = NoEntry
                 \/ now > rateLimits[calls[c].list][1].resetTime))
              => /\ Passed(c)
                 /\ rateLimits'[calls[c].list] = Entry(1, now + rateLimitWindow)]_vars

\* the 101st request of key 10.0.0.1 in its window has been rejected while
\* another request of the key waits for the mutex
C24_Witness ==
    /\ ev.status = 429
    /\ ev.list = "10.0.0.1"
    /\ rateLimits["10.0.0.1"] = Entry(rateLimit, rateLimitWindow)
    /\ forwarded["10.0.0.1"].limited = rateLimit
    /\ \E c \in Clients : Running(c, "rateLimitMiddleware") /\ calls[c].list = "10.0.0.1"

-----------------------------------------------------------------------------
(* The list page *)

\* the ids of the items of the page's list among its, in the order of GetItems
StoreOrder(its) == IdsOf(OrderBySortOrder(ItemsOf(its, props_id)))

\* C28: a drag-and-drop reorders the items array of the page before anything
\* is sent, and the request carries the order of the array; a request that
\* fails (not delivered, response lost, or a status other than success) is
\* followed by the re-fetch and by nothing else of the page; a re-fetch that
\* succeeds leaves the page with the order GetItems returns from the store;
\* and a request answered with success leaves the page with the order sent.
C28_RefetchOnError ==
    /\ [][ev'.op = "onEnd"
            => /\ page'.items # page.items
               /\ {page'.items[i] : i \in DOMAIN page'.items}
                    = {page.items[i] : i \in DOMAIN page.items}
               /\ Len(page'.items) = Len(page.items)
               /\ page'.sent = IdsOf(page'.items)
               /\ UNCHANGED <<items, calls>>]_vars
    /\ [][ev'.op = "ReorderBegin"
            => /\ calls'[PageClient].in = IdsOf(page.items)
               /\ calls'[PageClient].list = props_id
               /\ page'.items = page.items]_vars
    /\ [][page.pc = "sending" /\ ev'.op = "fetch" => page'.pc = "refetch"]_vars
    /\ [][page.pc = "waiting" /\ page'.pc # "waiting"
            => IF calls[PageClient].status = 200 /\ ~ev'.err
               THEN page'.pc = "idle" /\ IdsOf(page'.items) = calls[PageClient].in
               ELSE page'.pc = "refetch"]_vars
    /\ [][page.pc = "refetch" /\ page' # page
            => /\ ev'.op \in {"GetItems", "fetchItems"}
               /\ page'.pc = "idle"
               /\ IF ev'.op = "GetItems"
                  THEN IdsOf(page'.items) = StoreOrder(items')
                  ELSE page'.items = page.items]_vars

\* the request for the order 2, 3, 1 failed at its second statement; the
\* re-fetch has left the page with the order of the store, 2, 1, 3, which is
\* neither the order sent nor the order before the drag
C28_Witness ==
    /\ ev.op = "GetItems"
    /\ page.pc = "idle"
    /\ page.error
    /\ page.sent = <<2, 3, 1>>
    /\ IdsOf(page.items) = <<2, 1, 3>>
    /\ StoreOrder(items) = <<2, 1, 3>>

-----------------------------------------------------------------------------
(* Isolation of lists *)

\* the rows of table h whose list_id is l, in storage order
OnlyList(h, l) == SelectSeq(h, LAMBDA r : r.list_id = l)

\* items that list l may hold instead of its own, with a name other lists use
OtherItems(l) ==
    { {},
      {NewItem(7, l, "milk", FALSE, 1)},
      {NewItem(7, l, "milk", FALSE, 1), NewItem(8, l, "", TRUE, 2)} }

\* history tables made of the rows rows of one list and of rows that list l may
\* have instead of its own, stored before or after them
OtherHistory(l, rows) ==
    { rows,
      <<[IsoRow(l) EXCEPT !.dismissed = TRUE]>> \o rows,
      rows \o <<NewRow(l, "milk", 0)>> }

\* C27: a step of an operation addressed to one list changes no item and no
\* history row of another list B, and what GetItems(B) and
\* GetRecommendations(B) return is what they return on every store that holds
\* the same items and history rows of B and other data of the other list, also
\* when both lists use the same item name.
C27_ListIsolation ==
    /\ [][\A B \in ListIds :
            ev'.list # B
                => /\ ItemsOf(items', B) = ItemsOf(items, B)
                   /\ OnlyList(hist', B) = OnlyList(hist, B)]_vars
    /\ [](\A B \in ListIds, A \in ListIds :
            A # B =>
                \A its \in OtherItems(A), h \in OtherHistory(A, OnlyList(hist, B)) :
                    /\ ev.op = "GetItems" /\ ev.list = B
                        => ev.body = OrderBySortOrder(ItemsOf(ItemsOf(items, B) \cup its, B))
                    /\ ev.op = "GetRecommendations" /\ ev.list = B
                        => \E tb \in TieBreaks :
                              ev.body = Recommendations(h, ItemsOf(items, B) \cup its,
                                                        B, now, tb))

\* GetRecommendations of list L2 has returned "milk" while list L1 holds an
\* item "milk" and a history row of "milk" that was dismissed
C27_Witness ==
    /\ ev.op = "GetRecommendations"
    /\ ev.list = "L2"
    /\ Names(ev.body) = {"milk"}
    /\ "milk" \in {it.name : it \in ItemsOf(items, "L1")}
    /\ HasRow(hist, "L1", "milk")
    /\ RowOf(hist, "L1", "milk").dismissed
    /\ HasRow(hist, "L2", "milk")
    /\ ~RowOf(hist, "L2", "milk").dismissed

====
